---- MODULE Spec2Model ----
(***************************************************************************)
(* A model of table_sync: the merge walk of process_partition             *)
(* (scripts/reconcile_runner.py), the comparison dispatcher               *)
(* (logic/comparator.py) and the discrepancy sink (logic/reporter.py).    *)
(*                                                                         *)
(* Values.  A Python value is a tagged record: None, an int, a one-digit  *)
(* str, a float (counted in units of 1e-6) or a row (a dict).  An int 1   *)
(* and the str "1" are different values, as in Python.                     *)
(***************************************************************************)
EXTENDS Integers, Sequences, FiniteSets, TLC

\* ---------------------------------------------------------------- bounds
MaxKey == 3          \* primary keys are 1..MaxKey
MaxLen == 2          \* rows per fetched list in the walk specification
MaxRows == 2         \* rows per fetched list in the pipeline specification
MaxWrites == 3       \* records handed to one sink in the sink specification
MaxRuns == 2         \* runs of fix_mismatches in the repair specification
MaxScope == 2        \* entries of partitioning.scope

\* ------------------------------------------------------- program constants
DefaultBatchSize == 1000   \* DiscrepancyWriter(batch_size=1000)
Tolerance == 10            \* 1e-5, in units of 1e-6

\* ----------------------------------------------------------------- values
None == [t |-> "None"]
IntV(n) == [t |-> "int", v |-> n]
StrV(d) == [t |-> "str", v |-> d]      \* the str of the single digit d
FloatV(u) == [t |-> "float", v |-> u]  \* u * 1e-6
TextV(s) == [t |-> "text", s |-> s]    \* a str that is not a number

IsNone(x) == x = None

\* A == that coerces: the int 1 would equal the str "1".
PyEq_Coercing(a, b) == a.v = b.v

\* Python's == on two primary keys: an int never equals a str.
PyEq(a, b) == a = b

\* Python's < is defined on two ints and on two strs (one-digit strs order
\* as their digits do); on an int and a str it raises TypeError.
Comparable(a, b) == a.t = b.t

PyLess(a, b) == a.v < b.v

\* ------------------------------------------------------------------- rows
LogicalColumns == <<"id", "col">>      \* config source.columns, in order
primary_key == "id"

Row(k, c) == [id |-> k, col |-> c]

IntKeys == {IntV(n) : n \in 1..MaxKey}
StrKeys == {StrV(n) : n \in 1..MaxKey}

SeqsUpTo(S, n) == UNION {[1..k -> S] : k \in 0..n}

StrictlyIncreasing(rows) ==
    \A i \in 1..(Len(rows) - 1) :
        /\ Comparable(rows[i].id, rows[i + 1].id)
        /\ PyLess(rows[i].id, rows[i + 1].id)

NonDecreasing(rows) ==
    \A i \in 1..(Len(rows) - 1) :
        /\ Comparable(rows[i].id, rows[i + 1].id)
        /\ ~PyLess(rows[i + 1].id, rows[i].id)

KeysOf(rows) == {rows[i].id : i \in 1..Len(rows)}

VARIABLES
    src_rows, dest_rows,  \* the two fetched lists
    si, di,               \* src_iter / dest_iter: index of src_row, dest_row
    config,               \* config["comparison"]
    partition,            \* the partition descriptor
    pairs,                \* MATCH pairs yielded by row_pairs()
    results,              \* what the dispatcher has still to yield
    events,               \* history: the events of the walk, in order
    iters,                \* history: iterations of the walk's while loop
    sample, seen_pks,     \* the shared debug sample
    writer,               \* the DiscrepancyWriter: columns, buffer, prepared
    db,                   \* the output table: its columns and its rows
    pc, err,              \* position in process_partition; exception raised
    written,              \* history: the records handed to this sink's write
    todo,                 \* main: the partitions still to be processed
    pass1,                \* history: the output table after the first pass
    dest_table,           \* the destination table, as the repair sees it
    sched,                \* main's threads: the partition runs, their
                          \*   connections and sinks (see NoSched)
    fix                   \* fix_mismatches: its options and loop position
                          \*   (scope: the partitions of the config;
                          \*    partitions: those its loop has yet to end;
                          \*    columns: those its inner loop has yet to do;
                          \*    run, affected, failed, outcome, out0,
                          \*    dest0, dest1:
                          \*    history of the runs)

vars == <<src_rows, dest_rows, si, di, config, partition, pairs, results,
          events, iters, sample, seen_pks, writer, db, pc, err,
          written, todo, pass1, dest_table, sched, fix>>

\* no partition run yet: the groups main has still to process, one run per
\* partition, the (connection, thread) pairs of the calls in progress, and
\* as history the connections with the run that opened each, the
\* connection uses, the sink calls and the order of the starts
NoSched ==
    [groups |-> <<>>, runs |-> <<>>, inside |-> {}, opened |-> {},
     uses |-> {}, calls |-> {}, started |-> <<>>]

\* no first pass recorded; fix_mismatches not running
NoPass == [done |-> FALSE, table |-> <<>>]
NoFix ==
    [running |-> FALSE, dry_run |-> TRUE, skip_nulls |-> TRUE,
     scope |-> <<>>, partitions |-> <<>>, selected |-> FALSE, columns |-> {},
     run |-> 0, affected |-> 0, failed |-> FALSE, outcome |-> "none",
     out0 |-> <<>>, dest0 |-> <<>>, dest1 |-> <<>>]

\* ------------------------------------------------------------------- sink
\* DiscrepancyWriter.__init__.  self.conn is the connection the partition
\* has opened; of the connection the model keeps the batches it has merged
\* and committed.
NewWriter(bs) ==
    [columns |-> {}, buffer |-> <<>>, prepared |-> FALSE, batch_size |-> bs,
     conn |-> [committed |-> <<>>]]

EmptyDb == [tableCols |-> {}, table |-> <<>>, now |-> 0]

\* What the driver stores in a VARCHAR column: the text of the value.  The
\* int 1 and the str "1" are stored as the same text.
\* A whole row (the source_value of a row-level record) is taken to be
\* stored as its text too.
SqlText(x) ==
    IF "t" \notin DOMAIN x THEN [t |-> "rowtext", row |-> x]
    ELSE IF x.t = "int" THEN StrV(x.v)
    ELSE x

\* DiscrepancyWriter._prepare_table: on the first write, the columns are the
\* keys of the record and the table is created unless it exists.
PrepareTable(st, rec) ==
    IF st.w.prepared THEN st
    ELSE [st EXCEPT
            !.w.columns = DOMAIN rec,
            !.w.prepared = TRUE,
            !.db.tableCols =
                IF st.db.tableCols = {}
                THEN (DOMAIN rec) \cup {"record_insert_datetime"}
                ELSE @]

\* The MERGE's ON clause: target.[c] = source.[c] for c in key_cols.  In SQL
\* a comparison with NULL is never true.
KeyCols(cols) == {"primary_key", "column"} \cap cols

OnClause(t, s, keyCols) ==
    \A c \in keyCols : ~IsNone(t[c]) /\ ~IsNone(s[c]) /\ t[c] = s[c]

\* DiscrepancyWriter._merge_temp_into_target: the MERGE statement.
\* Matched target rows take the source row's other columns; source rows
\* that match nothing are inserted.
MergeTempIntoTarget(table, tableCols, temp, cols) ==
    LET keyCols == KeyCols(cols)
        Hit(t) == {j \in 1..Len(temp) : OnClause(t, temp[j], keyCols)}
        Src(t) == temp[CHOOSE j \in Hit(t) : TRUE]
        updated == [i \in 1..Len(table) |->
                      IF Hit(table[i]) = {} THEN table[i]
                      ELSE [c \in DOMAIN table[i] |->
                              IF c \in cols \ keyCols
                              THEN Src(table[i])[c] ELSE table[i][c]]]
        Unmatched(j) == \A i \in 1..Len(table) :
                            ~OnClause(table[i], temp[j], keyCols)
        inserted == SelectSeq(
                      [j \in 1..Len(temp) |->
                         [c \in tableCols |->
                            IF c \in cols THEN temp[j][c] ELSE None]],
                      LAMBDA r : \E j \in 1..Len(temp) :
                          /\ Unmatched(j)
                          /\ r = [c \in tableCols |->
                                    IF c \in cols THEN temp[j][c] ELSE None])
    IN  updated \o inserted

\* SQL Server refuses a MERGE in which one target row is matched by more
\* than one source row.
MergeAmbiguous(table, temp, cols) ==
    \E i \in 1..Len(table) :
        Cardinality({j \in 1..Len(temp) :
                        OnClause(table[i], temp[j], KeyCols(cols))}) > 1

\* flush as it would be if the buffer were not cleared after the commit
Flush_KeepBuffer(st) ==
    IF st.w.buffer = <<>> THEN st
    ELSE
    LET cols == st.w.columns \cup {"record_insert_datetime"}
        \* _bulk_insert_temp stamps the records that have no timestamp yet
        recs == [i \in 1..Len(st.w.buffer) |->
                   IF "record_insert_datetime" \in DOMAIN st.w.buffer[i]
                   THEN st.w.buffer[i]
                   ELSE st.w.buffer[i] @@
                        ("record_insert_datetime" :> IntV(st.db.now))]
        keyError == \E i \in 1..Len(recs) : ~(cols \subseteq DOMAIN recs[i])
        temp == [i \in 1..Len(recs) |-> [c \in cols |-> SqlText(recs[i][c])]]
        stamped == [st EXCEPT !.w.columns = cols, !.w.buffer = recs]
    IN  IF keyError THEN [stamped EXCEPT !.exc = "KeyError"]
        ELSE IF KeyCols(cols) = {} THEN [stamped EXCEPT !.exc = "ValueError"]
        ELSE IF ~(cols \subseteq st.db.tableCols)
                \/ MergeAmbiguous(st.db.table, temp, cols)
             THEN [stamped EXCEPT !.exc = "DatabaseError"]
        ELSE [stamped EXCEPT
                !.w.conn.committed = Append(@, recs),
                !.db.table = MergeTempIntoTarget(st.db.table, st.db.tableCols,
                                                 temp, cols)]

\* flush as it would be if the buffer were cleared before the statements
\* are executed
Flush_ClearOnFailure(st) ==
    IF st.w.buffer = <<>> THEN st
    ELSE
    LET cols == st.w.columns \cup {"record_insert_datetime"}
        \* _bulk_insert_temp stamps the records that have no timestamp yet
        recs == [i \in 1..Len(st.w.buffer) |->
                   IF "record_insert_datetime" \in DOMAIN st.w.buffer[i]
                   THEN st.w.buffer[i]
                   ELSE st.w.buffer[i] @@
                        ("record_insert_datetime" :> IntV(st.db.now))]
        keyError == \E i \in 1..Len(recs) : ~(cols \subseteq DOMAIN recs[i])
        temp == [i \in 1..Len(recs) |-> [c \in cols |-> SqlText(recs[i][c])]]
        stamped == [st EXCEPT !.w.columns = cols, !.w.buffer = <<>>]
    IN  IF keyError THEN [stamped EXCEPT !.exc = "KeyError"]
        ELSE IF KeyCols(cols) = {} THEN [stamped EXCEPT !.exc = "ValueError"]
        ELSE IF ~(cols \subseteq st.db.tableCols)
                \/ MergeAmbiguous(st.db.table, temp, cols)
             THEN [stamped EXCEPT !.exc = "DatabaseError"]
        ELSE [stamped EXCEPT
                !.w.buffer = <<>>,
                !.w.conn.committed = Append(@, recs),
                !.db.table = MergeTempIntoTarget(st.db.table, st.db.tableCols,
                                                 temp, cols)]

\* DiscrepancyWriter.flush.  st.exc names the exception it raises, if any;
\* the buffer is cleared only after the commit.
Flush(st) ==
    IF st.w.buffer = <<>> THEN st
    ELSE
    LET cols == st.w.columns \cup {"record_insert_datetime"}
        \* _bulk_insert_temp stamps the records that have no timestamp yet
        recs == [i \in 1..Len(st.w.buffer) |->
                   IF "record_insert_datetime" \in DOMAIN st.w.buffer[i]
                   THEN st.w.buffer[i]
                   ELSE st.w.buffer[i] @@
                        ("record_insert_datetime" :> IntV(st.db.now))]
        keyError == \E i \in 1..Len(recs) : ~(cols \subseteq DOMAIN recs[i])
        temp == [i \in 1..Len(recs) |-> [c \in cols |-> SqlText(recs[i][c])]]
        stamped == [st EXCEPT !.w.columns = cols, !.w.buffer = recs]
    IN  IF keyError THEN [stamped EXCEPT !.exc = "KeyError"]
        ELSE IF KeyCols(cols) = {} THEN [stamped EXCEPT !.exc = "ValueError"]
        ELSE IF ~(cols \subseteq st.db.tableCols)
                \/ MergeAmbiguous(st.db.table, temp, cols)
             THEN [stamped EXCEPT !.exc = "DatabaseError"]
        ELSE [stamped EXCEPT
                !.w.buffer = <<>>,
                !.w.conn.committed = Append(@, recs),
                !.db.table = MergeTempIntoTarget(st.db.table, st.db.tableCols,
                                                 temp, cols)]

\* write as it would be if it flushed only above batch_size
Write_Late(st, rec) ==
    LET p == PrepareTable(st, rec)
        a == [p EXCEPT !.w.buffer = Append(@, rec)]
    IN  IF Len(a.w.buffer) > a.w.batch_size THEN Flush(a) ELSE a

\* DiscrepancyWriter.write
Write(st, rec) ==
    LET p == PrepareTable(st, rec)
        a == [p EXCEPT !.w.buffer = Append(@, rec)]
    IN  IF Len(a.w.buffer) >= a.w.batch_size THEN Flush(a) ELSE a

\* DiscrepancyWriter.close, which __exit__ calls
Close(st) == Flush(st)

Sink == [w |-> writer, db |-> db, exc |-> "none"]

\* the records the sink holds, buffered or in the output table
RecordsWritten == Len(writer.buffer) + Len(db.table)

\* ------------------------------------------------------------- merge walk
src_row == IF si <= Len(src_rows) THEN src_rows[si] ELSE None
dest_row == IF di <= Len(dest_rows) THEN dest_rows[di] ELSE None
src_key == IF ~IsNone(src_row) THEN src_row[primary_key] ELSE None
dest_key == IF ~IsNone(dest_row) THEN dest_row[primary_key] ELSE None

PartitionWeek(p) == IF "week" \in DOMAIN p THEN p.week ELSE None

RowRecord(type, key, sv, dv) ==
    [primary_key |-> key, type |-> TextV(type), column |-> None,
     source_value |-> sv, dest_value |-> dv,
     year |-> partition.year, month |-> partition.month,
     week |-> PartitionWeek(partition)]

Event(kind, key) == [kind |-> kind, key |-> key]

\* An exception leaves the with-block: __exit__ closes the writer, and the
\* exception (or the one close raises) ends process_partition.
Raise(st, name) ==
    LET c == Close([st EXCEPT !.exc = "none"])
    IN  /\ writer' = c.w
        /\ db' = c.db
        /\ pc' = "error"
        /\ err' = IF c.exc # "none" THEN c.exc ELSE name

\* write_record(record) inside the generator: the sink takes the record, or
\* its flush raises and ends the partition.
WriteRecord(rec, nextPc) ==
    LET st == Write(Sink, rec)
    IN  /\ written' = Append(written, rec)
        /\ IF st.exc # "none" THEN Raise(st, st.exc)
           ELSE /\ writer' = st.w
                /\ db' = st.db
                /\ pc' = nextPc
                /\ err' = err

\* A loop that ends as soon as either list is exhausted.
LoopCondition_BothRows == ~IsNone(src_row) /\ ~IsNone(dest_row)

\* while src_row is not None or dest_row is not None
LoopCondition == ~IsNone(src_row) \/ ~IsNone(dest_row)

\* A guard that pairs any two rows, whatever their keys.
MatchGuard_AnyKeys ==
    /\ ~IsNone(src_row) /\ ~IsNone(dest_row)

\* if src_row and dest_row and src_key == dest_key
MatchGuard ==
    /\ ~IsNone(src_row) /\ ~IsNone(dest_row)
    /\ PyEq(src_key, dest_key)

\* src_key < dest_key is evaluated when both rows are there; on an int and a
\* str it raises TypeError
LessRaises ==
    /\ ~IsNone(dest_row) /\ ~IsNone(src_row)
    /\ ~Comparable(src_key, dest_key)

\* The comparison the wrong way round: src_key > dest_key.
WalkMissingGuard_Flipped ==
    \/ IsNone(dest_row)
    \/ /\ ~IsNone(dest_row) /\ ~IsNone(src_row)
       /\ PyLess(dest_key, src_key)

\* elif dest_row is None or (src_row and src_key < dest_key): the right
\* operand of "or" is evaluated only when dest_row is not None
WalkMissingGuard ==
    \/ IsNone(dest_row)
    \/ /\ ~IsNone(dest_row) /\ ~IsNone(src_row)
       /\ PyLess(src_key, dest_key)

\* A MATCH branch that forgets dest_row = next(dest_iter, None).
WalkMatch_SourceOnly ==
    /\ pc = "walk"
    /\ LoopCondition
    /\ MatchGuard
    /\ pairs' = Append(pairs, <<src_row, dest_row>>)
    /\ events' = Append(events, Event("MATCH", src_key))
    /\ si' = si + 1
    /\ iters' = iters + 1
    /\ UNCHANGED <<sched, src_rows, dest_rows, di, config, partition, results, sample,
                   seen_pks, writer, db, pc, err>>
    /\ UNCHANGED <<written, todo, pass1, dest_table, fix>>

\* A MATCH branch that forgets src_row = next(src_iter, None).
WalkMatch_DestOnly ==
    /\ pc = "walk"
    /\ LoopCondition
    /\ MatchGuard
    /\ pairs' = Append(pairs, <<src_row, dest_row>>)
    /\ events' = Append(events, Event("MATCH", src_key))
    /\ di' = di + 1
    /\ iters' = iters + 1
    /\ UNCHANGED <<sched, src_rows, dest_rows, si, config, partition, results, sample,
                   seen_pks, writer, db, pc, err>>
    /\ UNCHANGED <<written, todo, pass1, dest_table, fix>>

\* A MATCH branch that advances neither iterator.
WalkMatch_NoAdvance ==
    /\ pc = "walk"
    /\ LoopCondition
    /\ MatchGuard
    /\ pairs' = Append(pairs, <<src_row, dest_row>>)
    /\ events' = Append(events, Event("MATCH", src_key))
    /\ iters' = iters + 1
    /\ UNCHANGED <<sched, src_rows, dest_rows, si, di, config, partition, results,
                   sample, seen_pks, writer, db, pc, err>>
    /\ UNCHANGED <<written, todo, pass1, dest_table, fix>>

\* the MATCH branch: yield the pair, advance both iterators
WalkMatch ==
    /\ pc = "walk"
    /\ LoopCondition
    /\ MatchGuard
    /\ pairs' = Append(pairs, <<src_row, dest_row>>)
    /\ events' = Append(events, Event("MATCH", src_key))
    /\ si' = si + 1
    /\ di' = di + 1
    /\ iters' = iters + 1
    /\ UNCHANGED <<sched, src_rows, dest_rows, config, partition, results, sample,
                   seen_pks, writer, db, pc, err>>
    /\ UNCHANGED <<written, todo, pass1, dest_table, fix>>

\* the elif branch: the source row is reported missing, the source advances
WalkMissing ==
    /\ pc = "walk"
    /\ LoopCondition
    /\ ~MatchGuard
    /\ ~LessRaises
    /\ WalkMissingGuard
    /\ WriteRecord(RowRecord("missing_in_dest", src_key, src_row, None),
                   "walk")
    /\ events' = Append(events, Event("missing_in_dest", src_key))
    /\ si' = si + 1
    /\ iters' = iters + 1
    /\ UNCHANGED <<sched, src_rows, dest_rows, di, config, partition, pairs, results,
                   sample, seen_pks>>
    /\ UNCHANGED <<todo, pass1, dest_table, fix>>

\* the else branch: the destination row is reported extra, the destination
\* advances
WalkExtra ==
    /\ pc = "walk"
    /\ LoopCondition
    /\ ~MatchGuard
    /\ ~LessRaises
    /\ ~WalkMissingGuard
    /\ WriteRecord(RowRecord("extra_in_dest", dest_key, None, dest_row),
                   "walk")
    /\ events' = Append(events, Event("extra_in_dest", dest_key))
    /\ di' = di + 1
    /\ iters' = iters + 1
    /\ UNCHANGED <<sched, src_rows, dest_rows, si, config, partition, pairs, results,
                   sample, seen_pks>>
    /\ UNCHANGED <<todo, pass1, dest_table, fix>>

\* the elif condition raises: the generator, and with it the partition, ends
WalkTypeError ==
    /\ pc = "walk"
    /\ LoopCondition
    /\ ~MatchGuard
    /\ LessRaises
    /\ Raise(Sink, "TypeError")
    /\ iters' = iters + 1
    /\ UNCHANGED <<sched, src_rows, dest_rows, si, di, config, partition, pairs,
                   results, events, sample, seen_pks>>
    /\ UNCHANGED <<written, todo, pass1, dest_table, fix>>

\* the while condition is false: the generator is exhausted
WalkEnd ==
    /\ pc = "walk"
    /\ ~LoopCondition
    /\ pc' = "dispatch"
    /\ UNCHANGED <<sched, src_rows, dest_rows, si, di, config, partition, pairs,
                   results, events, iters, sample, seen_pks, writer, db, err>>
    /\ UNCHANGED <<written, todo, pass1, dest_table, fix>>

\* ------------------------------------------- the walk on any two key lists
P1 == [year |-> TextV("2021"), month |-> TextV("01")]

SerialConfig ==
    [parallel |-> FALSE, parallel_mode |-> "thread", use_row_hash |-> FALSE,
     include_nulls |-> FALSE]

InitWalk ==
    /\ src_rows \in SeqsUpTo({Row(k, FloatV(0)) : k \in IntKeys}, MaxLen)
    /\ \E K \in {IntKeys, StrKeys} :
          dest_rows \in SeqsUpTo({Row(k, FloatV(0)) : k \in K}, MaxLen)
    /\ si = 1 /\ di = 1
    /\ config = SerialConfig
    /\ partition = P1
    /\ pairs = <<>> /\ results = <<>> /\ events = <<>> /\ iters = 0
    /\ sample = <<>> /\ seen_pks = {}
    /\ writer = NewWriter(DefaultBatchSize)
    /\ db = EmptyDb
    /\ pc = "walk" /\ err = "none"
    /\ written = <<>> /\ todo = <<>>
    /\ pass1 = NoPass /\ dest_table = <<>> /\ fix = NoFix
    /\ sched = NoSched

NextWalk ==
    \/ WalkMatch
    \/ WalkMissing
    \/ WalkExtra
    \/ WalkTypeError
    \/ WalkEnd

SpecWalk == InitWalk /\ [][NextWalk]_vars

\* ------------------------------------------------------------- comparator
HashV(h) == [t |-> "hash", h |-> h]

Abs(n) == IF n < 0 THEN -n ELSE n

\* str(n) of a natural number, and its last places digits
DigitText == <<"0", "1", "2", "3", "4", "5", "6", "7", "8", "9">>

RECURSIVE Decimal(_)
Decimal(n) ==
    IF n < 10 THEN DigitText[n + 1]
    ELSE Decimal(n \div 10) \o DigitText[(n % 10) + 1]

RECURSIVE Places(_, _)
Places(n, places) ==
    IF places = 0 THEN ""
    ELSE Places(n \div 10, places - 1) \o DigitText[(n % 10) + 1]

\* f"{val:.5f}" of the float u * 1e-6: sign, integer part, point and five
\* decimals, rounded to the nearest (no float the model holds lies halfway)
FixedV(u) ==
    LET n == (Abs(u) + 5) \div 10
    IN  TextV((IF u < 0 THEN "-" ELSE "") \o Decimal(n \div 100000)
              \o "." \o Places(n % 100000, 5))

\* sanitize: None stays None, what float() accepts becomes a float, any
\* other value becomes its stripped text.  (The texts of the model are no
\* numbers and no dates.)
Sanitize(x) ==
    IF x.t = "None" THEN None
    ELSE IF x.t \in {"int", "str"} THEN FloatV(x.v * 1000000)
    ELSE x

\* An equality of numbers only, without the comparison of the texts.
ValuesEqual_FloatsOnly(a, b) ==
    /\ a.t = "float" /\ b.t = "float"
    /\ Abs(a.v - b.v) < Tolerance

\* values_equal: floats within the tolerance are equal; the date rule does
\* not apply to the model's values (dateutil rejects "0.0", "2e-05" and
\* "None"); then the texts are compared.
ValuesEqual(a, b) ==
    \/ /\ a.t = "float" /\ b.t = "float"
       /\ Abs(a.v - b.v) < Tolerance
    \/ a = b

\* normalize_value: sanitize, then "NULL", the float to five decimals, or
\* the text.
NormalizeValue(x) ==
    LET val == Sanitize(x)
    IN  IF val.t = "None" THEN TextV("NULL")
        ELSE IF val.t = "float" THEN FixedV(val.v)
        ELSE val

\* compute_row_hash: the normalized values in sorted key order ("col", then
\* "id") are fed to xxh64 one after the other, each h.update appending its
\* bytes to what the hash has been fed.  The hash is modelled by the text it
\* has been fed: xxh64 is taken to be collision-free.
ComputeRowHash(row) ==
    HashV(NormalizeValue(row.col).s \o NormalizeValue(row.id).s)

\* the columns compared: those of the column map, in its order, that
\* comparison.only_columns names when it names any
Columns(cfg) ==
    IF "only_columns" \in DOMAIN cfg /\ cfg.only_columns # <<>>
    THEN SelectSeq(LogicalColumns,
                   LAMBDA c : \E n \in 1..Len(cfg.only_columns) :
                                 cfg.only_columns[n] = c)
    ELSE LogicalColumns

\* compare_row_pair_by_pk: None when the hashes agree or no column differs,
\* else {primary_key, mismatches, partition}
CompareRowPairByPk(pair, cfg, part) ==
    LET s == pair[1]
        d == pair[2]
        srcHash == ComputeRowHash(s)
        destHash == ComputeRowHash(d)
        Differs(c) ==
            /\ ~ValuesEqual(Sanitize(s[c]), Sanitize(d[c]))
            /\ cfg.include_nulls
                  \/ ~(IsNone(Sanitize(s[c])) \/ IsNone(Sanitize(d[c])))
        Diff(c) ==
            IF cfg.use_row_hash
            THEN [column |-> TextV(c), source_value |-> Sanitize(s[c]),
                  dest_value |-> Sanitize(d[c]),
                  source_hash |-> srcHash, dest_hash |-> destHash]
            ELSE [column |-> TextV(c), source_value |-> Sanitize(s[c]),
                  dest_value |-> Sanitize(d[c])]
        differing == SelectSeq(Columns(cfg), Differs)
        mismatches == [n \in 1..Len(differing) |-> Diff(differing[n])]
    IN  IF cfg.use_row_hash /\ srcHash = destHash THEN None
        ELSE IF mismatches = <<>> THEN None
        ELSE [primary_key |-> s[primary_key], mismatches |-> mismatches,
              partition |-> part]

\* compare_row_pairs_parallel_detailed: one future per pair; the results
\* that are not None are yielded (as_completed: in any order, see Consume)
CompareRowPairsParallelDetailed(ps, cfg, part) ==
    SelectSeq([i \in 1..Len(ps) |-> CompareRowPairByPk(ps[i], cfg, part)],
           LAMBDA r : ~IsNone(r))

\* A filter that hands on every pair.
FilterPairsByHash_All(ps) == ps

\* _filter_pairs_by_hash: the pairs whose two row hashes differ
FilterPairsByHash(ps) ==
    SelectSeq(ps, LAMBDA pr : ComputeRowHash(pr[1]) # ComputeRowHash(pr[2]))

\* compare_row_pairs_parallel_batch
CompareRowPairsParallelBatch(ps, cfg, part) ==
    CompareRowPairsParallelDetailed(FilterPairsByHash(ps), cfg, part)

\* compare_row_pairs_serial.  The two DataFrames hold the sanitized values;
\* a column that holds a number anywhere holds NaN for its None values, a
\* column of None only holds None; the columns are compared with ==, and
\* NaN equals nothing.  Each unequal cell is yielded as one flat record
\* {primary_key, column, source_value, dest_value, partition}.  The columns
\* are compared by one task each and collected as the tasks complete; the
\* primary key column of MATCH pairs yields nothing, so the order of the
\* two columns does not show.
CompareRowPairsSerial(ps, cfg, part) ==
    LET AllNone(side, c) == \A i \in 1..Len(ps) : IsNone(ps[i][side][c])
        Cell(side, i, c) == Sanitize(ps[i][side][c])
        Equal(i, c) ==
            IF IsNone(Cell(1, i, c)) \/ IsNone(Cell(2, i, c))
            THEN /\ IsNone(Cell(1, i, c)) /\ IsNone(Cell(2, i, c))
                 /\ AllNone(1, c) /\ AllNone(2, c)
            ELSE Cell(1, i, c) = Cell(2, i, c)
        Yielded(i, c) ==
            /\ ~Equal(i, c)
            /\ cfg.include_nulls
                  \/ ~(IsNone(Cell(1, i, c)) \/ IsNone(Cell(2, i, c)))
        Flat(i, c) ==
            [primary_key |-> ps[i][1][primary_key], column |-> TextV(c),
             source_value |-> Cell(1, i, c), dest_value |-> Cell(2, i, c),
             partition |-> part]
        Rows(c) == SelectSeq([i \in 1..Len(ps) |-> i],
                             LAMBDA i : Yielded(i, c))
        OfColumn(c) == [n \in 1..Len(Rows(c)) |-> Flat(Rows(c)[n], c)]
        RECURSIVE OfColumns(_)
        OfColumns(cs) ==
            IF cs = <<>> THEN <<>>
            ELSE OfColumn(Head(cs)) \o OfColumns(Tail(cs))
    IN  OfColumns(Columns(cfg))

\* compare_row_pairs: nothing for no pair; else the mode the first pair's
\* config selects
CompareRowPairs(ps, cfg, part) ==
    IF ps = <<>> THEN <<>>
    ELSE IF cfg.parallel
         THEN IF cfg.parallel_mode = "batch"
              THEN CompareRowPairsParallelBatch(ps, cfg, part)
              ELSE CompareRowPairsParallelDetailed(ps, cfg, part)
    ELSE CompareRowPairsSerial(ps, cfg, part)

\* ------------------------------------------- process_partition's consumer
\* for result in compare_row_pairs(row_pairs(), ...): the generator has been
\* driven to its end; the dispatcher computes what it will yield.
Dispatch ==
    /\ pc = "dispatch"
    /\ results' = CompareRowPairs(pairs, config, partition)
    /\ pc' = "consume"
    /\ UNCHANGED <<sched, src_rows, dest_rows, si, di, config, partition, pairs,
                   events, iters, sample, seen_pks, writer, db, err>>
    /\ UNCHANGED <<written, todo, pass1, dest_table, fix>>

Get(d, k) == IF k \in DOMAIN d THEN d[k] ELSE None

\* the record process_partition writes for one diff of a result
MismatchRecord(result, diff) ==
    LET part == IF "partition" \in DOMAIN result THEN result.partition
                ELSE [none |-> None]
        base == [primary_key |-> result.primary_key,
                 type |-> TextV("mismatch"),
                 column |-> diff.column,
                 source_value |-> diff.source_value,
                 dest_value |-> diff.dest_value,
                 year |-> Get(part, "year"),
                 month |-> Get(part, "month"),
                 week |-> Get(part, "week")]
    IN  IF config.use_row_hash
        THEN base @@ [source_hash |-> Get(diff, "source_hash"),
                      dest_hash |-> Get(diff, "dest_hash")]
        ELSE base

\* write_record for each record of recs, until one raises
RECURSIVE WriteAll(_, _)
WriteAll(st, recs) ==
    IF recs = <<>> \/ st.exc # "none" THEN st
    ELSE WriteAll(Write(st, Head(recs)), Tail(recs))

\* the records of recs that are handed to write: all up to the one whose
\* write raises
RECURSIVE Attempted(_, _)
Attempted(st, recs) ==
    IF recs = <<>> \/ st.exc # "none" THEN <<>>
    ELSE <<Head(recs)>> \o Attempted(Write(st, Head(recs)), Tail(recs))

Remove(seq, i) == SubSeq(seq, 1, i - 1) \o SubSeq(seq, i + 1, Len(seq))

\* The serial mode yields its results in order; the parallel modes yield
\* them as the futures complete, in any order.
MayYield(i) ==
    /\ i \in 1..Len(results)
    /\ config.parallel \/ i = 1

\* one iteration of the for loop over a result that has "mismatches"
ConsumeResult ==
    /\ pc = "consume"
    /\ \E i \in 1..Len(results) :
        /\ MayYield(i)
        /\ "mismatches" \in DOMAIN results[i]
        /\ LET result == results[i]
               recs == [n \in 1..Len(result.mismatches) |->
                          MismatchRecord(result, result.mismatches[n])]
               st == WriteAll(Sink, recs)
               sampled == /\ result.mismatches # <<>>
                          /\ result.primary_key \notin seen_pks
                          /\ Len(sample) < 2
           IN  /\ IF st.exc # "none" THEN Raise(st, st.exc)
                  ELSE /\ writer' = st.w
                       /\ db' = st.db
                       /\ UNCHANGED <<pc, err>>
               /\ sample' = IF sampled
                            THEN Append(sample, <<result.primary_key,
                                                  result.mismatches[1]>>)
                            ELSE sample
               /\ seen_pks' = IF sampled
                              THEN seen_pks \cup {result.primary_key}
                              ELSE seen_pks
               /\ results' = Remove(results, i)
               /\ written' = written \o Attempted(Sink, recs)
    /\ UNCHANGED <<sched, src_rows, dest_rows, si, di, config, partition, pairs,
                   events, iters>>
    /\ UNCHANGED <<todo, pass1, dest_table, fix>>

\* result["mismatches"] on a result that has no such key raises KeyError
ConsumeKeyError ==
    /\ pc = "consume"
    /\ \E i \in 1..Len(results) :
        /\ MayYield(i)
        /\ "mismatches" \notin DOMAIN results[i]
    /\ Raise(Sink, "KeyError")
    /\ UNCHANGED <<sched, src_rows, dest_rows, si, di, config, partition, pairs,
                   results, events, iters, sample, seen_pks>>
    /\ UNCHANGED <<written, todo, pass1, dest_table, fix>>

\* the for loop is over: writer.flush()
FinalFlush ==
    /\ pc = "consume"
    /\ results = <<>>
    /\ LET st == Flush(Sink)
       IN  IF st.exc # "none" THEN Raise(st, st.exc)
           ELSE /\ writer' = st.w
                /\ db' = st.db
                /\ pc' = "exit"
                /\ err' = err
    /\ UNCHANGED <<sched, src_rows, dest_rows, si, di, config, partition, pairs,
                   results, events, iters, sample, seen_pks>>
    /\ UNCHANGED <<written, todo, pass1, dest_table, fix>>

\* the with-block is left normally: __exit__ closes the writer
ExitWriter ==
    /\ pc = "exit"
    /\ LET st == Close(Sink)
       IN  /\ writer' = st.w
           /\ db' = st.db
           /\ pc' = IF st.exc # "none" THEN "error" ELSE "done"
           /\ err' = st.exc
    /\ UNCHANGED <<sched, src_rows, dest_rows, si, di, config, partition, pairs,
                   results, events, iters, sample, seen_pks>>
    /\ UNCHANGED <<written, todo, pass1, dest_table, fix>>

\* ------------------------------------------ one partition, walk to flush
PipeKeys == {IntV(n) : n \in 1..MaxRows}
SourceValues == {FloatV(0)}
DestValues == {None, FloatV(0), FloatV(20)}

\* comparison.parallel_mode is read in the parallel modes only
Configs ==
    [parallel : {FALSE}, parallel_mode : {"thread"},
     use_row_hash : BOOLEAN, include_nulls : BOOLEAN]
    \cup
    [parallel : {TRUE}, parallel_mode : {"thread", "batch"},
     use_row_hash : BOOLEAN, include_nulls : BOOLEAN]

Init ==
    /\ src_rows \in {r \in SeqsUpTo({Row(k, c) : k \in PipeKeys,
                                                c \in SourceValues}, MaxRows) :
                        NonDecreasing(r)}
    /\ dest_rows \in {r \in SeqsUpTo({Row(k, c) : k \in PipeKeys,
                                                 c \in DestValues}, MaxRows) :
                        NonDecreasing(r)}
    /\ si = 1 /\ di = 1
    /\ config \in Configs
    /\ partition = P1
    /\ pairs = <<>> /\ results = <<>> /\ events = <<>> /\ iters = 0
    /\ sample = <<>> /\ seen_pks = {}
    /\ writer = NewWriter(DefaultBatchSize)
    /\ db = EmptyDb
    /\ pc = "walk" /\ err = "none"
    /\ written = <<>> /\ todo = <<>>
    /\ pass1 = NoPass /\ dest_table = <<>> /\ fix = NoFix
    /\ sched = NoSched

Next ==
    \/ WalkMatch
    \/ WalkMissing
    \/ WalkExtra
    \/ WalkEnd
    \/ Dispatch
    \/ ConsumeResult
    \/ ConsumeKeyError
    \/ FinalFlush
    \/ ExitWriter

Spec == Init /\ [][Next]_vars

\* ------------------------------------------ one partition, run twice
\* The script is run again for the partition that has completed, over the
\* same source and destination rows and the same output table: a new
\* process_partition call with a new DiscrepancyWriter, at the same or a
\* later time of day.
Rerun ==
    /\ pc = "done"
    /\ ~pass1.done
    /\ pass1' = [done |-> TRUE, table |-> db.table]
    /\ si' = 1 /\ di' = 1
    /\ pairs' = <<>> /\ results' = <<>> /\ events' = <<>> /\ iters' = 0
    /\ sample' = <<>> /\ seen_pks' = {}
    /\ writer' = NewWriter(writer.batch_size)
    /\ \E later \in BOOLEAN :
          db' = [db EXCEPT !.now = IF later THEN @ + 1 ELSE @]
    /\ written' = <<>>
    /\ pc' = "walk"
    /\ UNCHANGED <<sched, src_rows, dest_rows, config, partition, err>>
    /\ UNCHANGED <<todo, dest_table, fix>>

NextRerun ==
    \/ WalkMatch
    \/ WalkMissing
    \/ WalkExtra
    \/ WalkEnd
    \/ Dispatch
    \/ ConsumeResult
    \/ ConsumeKeyError
    \/ FinalFlush
    \/ ExitWriter
    \/ Rerun

SpecRerun == Init /\ [][NextRerun]_vars

\* ------------------------------------- the sink over several partitions
P2 == [year |-> TextV("2021"), month |-> TextV("02")]
P1W1 == [year |-> TextV("2021"), month |-> TextV("01"), week |-> TextV("1")]
SinkPartitions == {P1, P2, P1W1}

\* the primary keys of the records the sink is given
SinkKeys == {IntV(1), IntV(2)}

BatchSizes == (1..MaxWrites) \cup {DefaultBatchSize}

\* The records process_partition hands to write_record for the partition
\* at hand: row-level records (lines 153, 165) and mismatch records (line
\* 193) of some primary key.
SinkInputs ==
    {RowRecord("missing_in_dest", k, Row(k, FloatV(0)), None) : k \in SinkKeys}
    \cup
    {MismatchRecord([primary_key |-> k, partition |-> partition],
                    [column |-> TextV("col"), source_value |-> FloatV(0),
                     dest_value |-> dv]) :
        k \in SinkKeys, dv \in {FloatV(20)}}

\* one write_record call
SinkWrite ==
    /\ pc = "consume"
    /\ results = <<>>
    /\ RecordsWritten < MaxWrites
    /\ Len(written) < MaxWrites
    /\ \E rec \in SinkInputs : WriteRecord(rec, "consume")
    /\ UNCHANGED <<sched, src_rows, dest_rows, si, di, config, partition, pairs,
                   results, events, iters, sample, seen_pks>>
    /\ UNCHANGED <<todo, pass1, dest_table, fix>>

\* main's loop calls process_partition for the next partition (or the run
\* is repeated): a new DiscrepancyWriter on the same output table
NextPartition ==
    /\ pc = "done"
    /\ partition' \in SinkPartitions
    /\ writer' = NewWriter(writer.batch_size)
    /\ pc' = "consume"
    /\ written' = <<>>
    /\ UNCHANGED <<sched, src_rows, dest_rows, si, di, config, pairs, results,
                   events, iters, sample, seen_pks, db, err>>
    /\ UNCHANGED <<todo, pass1, dest_table, fix>>

InitSink ==
    /\ src_rows = <<>> /\ dest_rows = <<>>
    /\ si = 1 /\ di = 1
    /\ config = SerialConfig
    /\ partition \in SinkPartitions
    /\ pairs = <<>> /\ results = <<>> /\ events = <<>> /\ iters = 0
    /\ sample = <<>> /\ seen_pks = {}
    /\ \E bs \in BatchSizes : writer = NewWriter(bs)
    /\ db = EmptyDb
    /\ pc = "consume" /\ err = "none"
    /\ written = <<>> /\ todo = <<>>
    /\ pass1 = NoPass /\ dest_table = <<>> /\ fix = NoFix
    /\ sched = NoSched

NextSink ==
    \/ SinkWrite
    \/ FinalFlush
    \/ ExitWriter
    \/ NextPartition

SpecSink == InitSink /\ [][NextSink]_vars

\* ------------------------------------------------------ fix_mismatches
\* A row of the destination table: the logical columns and the columns the
\* partitions are taken from.
DestRow(k, c, p) ==
    [id |-> k, col |-> c, col2 |-> FloatV(20),
     year |-> p.year, month |-> p.month,
     week |-> IF "week" \in DOMAIN p THEN p.week ELSE TextV("1")]

\* = in SQL: never true of NULL; a number and its text compare equal
SqlEq(a, b) == ~IsNone(a) /\ ~IsNone(b) /\ SqlText(a) = SqlText(b)

\* the conditions as they would be without that of skip_nulls
Where_IgnoringSkipNulls(s, p, col) ==
    /\ s.type = TextV("mismatch")
    /\ "year" \in DOMAIN p => SqlEq(s.year, p.year)
    /\ "month" \in DOMAIN p => SqlEq(s.month, p.month)
    /\ "week" \in DOMAIN p => SqlEq(s.week, p.week)
    /\ SqlEq(s.column, col)

\* the conditions as they would be if they named the partition only
Where_AnyRow(s, p, col) ==
    /\ "year" \in DOMAIN p => SqlEq(s.year, p.year)
    /\ "month" \in DOMAIN p => SqlEq(s.month, p.month)
    /\ "week" \in DOMAIN p => SqlEq(s.week, p.week)

\* where_clauses (lines 57-68) with src.[column] = ? and the skip_nulls
\* condition (lines 94-97), of an output row s
Where(s, p, col) ==
    /\ s.type = TextV("mismatch")
    /\ "year" \in DOMAIN p => SqlEq(s.year, p.year)
    /\ "month" \in DOMAIN p => SqlEq(s.month, p.month)
    /\ "week" \in DOMAIN p => SqlEq(s.week, p.week)
    /\ SqlEq(s.column, col)
    /\ fix.skip_nulls => ~IsNone(s.source_value) /\ s.source_value # TextV("")

\* join_on (lines 82-90) of a destination row d and an output row s
JoinOn(d, s, p) ==
    /\ SqlEq(d[primary_key], s.primary_key)
    /\ SqlEq(d.year, s.year)
    /\ SqlEq(d.month, s.month)
    /\ "week" \in DOMAIN p => SqlEq(d.week, s.week)

\* SELECT DISTINCT [column] FROM output WHERE type, year, month
ColumnsToUpdate(table, p) ==
    {table[j].column : j \in {j \in 1..Len(table) :
        /\ table[j].type = TextV("mismatch")
        /\ "year" \in DOMAIN p => SqlEq(table[j].year, p.year)
        /\ "month" \in DOMAIN p => SqlEq(table[j].month, p.month)}}

\* the output rows the UPDATE joins to destination row d
Matches(d, table, p, col) ==
    {j \in 1..Len(table) : JoinOn(d, table[j], p) /\ Where(table[j], p, col)}

\* The VARCHAR source_value put into the destination column, which the
\* model takes to be a float column: the text of a number becomes the
\* number, and the empty text 0.
CastToColumn(x) ==
    IF x.t = "str" THEN FloatV(x.v * 1000000)
    ELSE IF x = TextV("") THEN FloatV(0)
    ELSE x

\* the UPDATE ... FROM dest INNER JOIN output: a destination row joined to
\* several output rows takes the value of any one of them
Updated(dest, table, p, col, pick) ==
    [i \in 1..Len(dest) |->
        IF Matches(dest[i], table, p, col) = {} THEN dest[i]
        ELSE [dest[i] EXCEPT
                ![col.s] = CastToColumn(table[pick[i]].source_value)]]

RECURSIVE PicksUpTo(_, _, _, _, _)
PicksUpTo(n, dest, table, p, col) ==
    IF n = 0 THEN {<<>>}
    ELSE {Append(f, j) :
            f \in PicksUpTo(n - 1, dest, table, p, col),
            j \in IF Matches(dest[n], table, p, col) = {} THEN {0}
                  ELSE Matches(dest[n], table, p, col)}

\* for each destination row, the output row it takes its value from (0:
\* the row is joined to none)
Picks(dest, table, p, col) == PicksUpTo(Len(dest), dest, table, p, col)

\* cur.rowcount of the UPDATE
Affected(dest, table, p, col) ==
    Cardinality({i \in 1..Len(dest) : Matches(dest[i], table, p, col) # {}})

\* the statement as it would be if it deleted nothing
Deleted_Nothing(dest, table, p, col) == table

\* the DELETE src FROM output src INNER JOIN dest
Deleted(dest, table, p, col) ==
    SelectSeq(table, LAMBDA s :
        ~(/\ Where(s, p, col)
          /\ \E i \in 1..Len(dest) : JoinOn(dest[i], s, p)))

\* fix_mismatches is called (record f of the earlier calls): its options,
\* and the partitions of the config, "or [{}]"
StartFix(f, dry_run, skip_nulls, scope, out, dest) ==
    [f EXCEPT !.running = TRUE, !.dry_run = dry_run,
              !.skip_nulls = skip_nulls, !.scope = scope,
              !.partitions = IF scope = <<>> THEN <<[none |-> None]>>
                             ELSE scope,
              !.selected = FALSE, !.columns = {}, !.affected = 0,
              !.out0 = IF f.run = 0 THEN out ELSE @,
              !.dest0 = IF f.run = 0 THEN dest ELSE @]

\* lines 56-76: the SELECT DISTINCT of the partition at hand.  For a
\* partition with a week the WHERE names src.[week], and the statement has
\* no table of that alias: the server rejects it and the exception leaves
\* fix_mismatches and its caller.
FixSelect ==
    /\ pc = "fix"
    /\ fix.running /\ fix.partitions # <<>> /\ ~fix.selected
    /\ LET p == Head(fix.partitions)
       IN  IF "week" \in DOMAIN p
           THEN /\ fix' = [fix EXCEPT !.running = FALSE, !.failed = TRUE]
                /\ pc' = "error"
                /\ err' = "ProgrammingError"
           ELSE /\ fix' = [fix EXCEPT !.selected = TRUE,
                                      !.columns = ColumnsToUpdate(db.table, p)]
                /\ UNCHANGED <<pc, err>>
    /\ UNCHANGED <<sched, src_rows, dest_rows, si, di, config, partition, pairs,
                   results, events, iters, sample, seen_pks, writer, db>>
    /\ UNCHANGED <<written, todo, pass1, dest_table>>

\* what the server makes of the statements of one column
Outcomes == {"ok", "update fails", "delete fails"}

\* the DELETE as it would be if it were executed whatever the UPDATE did
DeleteRuns_Always(outcome) == TRUE

\* lines 120-127: the UPDATE is executed with --apply only, and its
\* failure is caught
UpdateRuns(dry_run, outcome) == ~dry_run /\ outcome # "update fails"

\* lines 125-142: the DELETE is reached unless the UPDATE has failed (the
\* except clause continues with the next column), and may itself fail
DeleteRuns(outcome) == outcome = "ok"

\* lines 79-150: one iteration of the loop over the columns, in the order
\* the SELECT returned them.  In a dry run the UPDATE is printed only; the
\* DELETE of lines 129-142 is executed in both modes.  When a statement
\* fails, the except clause goes on with the next column.
FixColumn ==
    /\ pc = "fix"
    /\ fix.running /\ fix.selected
    /\ \E col \in fix.columns, outcome \in Outcomes :
        LET p == Head(fix.partitions)
            update == UpdateRuns(fix.dry_run, outcome)
            delete == DeleteRuns(outcome)
        IN  /\ fix.dry_run => outcome # "update fails"
            /\ \E pick \in Picks(dest_table, db.table, p, col) :
                dest_table' =
                     IF update
                     THEN Updated(dest_table, db.table, p, col, pick)
                     ELSE dest_table
            /\ db' = [db EXCEPT !.table =
                        IF delete THEN Deleted(dest_table', @, p, col) ELSE @]
            /\ fix' = [fix EXCEPT
                         !.columns = @ \ {col},
                         !.failed = @ \/ outcome # "ok",
                         !.outcome = outcome,
                         !.affected =
                            IF update /\ delete
                            THEN @ + Affected(dest_table, db.table, p, col)
                            ELSE @]
    /\ UNCHANGED <<sched, src_rows, dest_rows, si, di, config, partition, pairs,
                   results, events, iters, sample, seen_pks, writer, pc, err>>
    /\ UNCHANGED <<written, todo, pass1>>

\* the loop over the columns is over: the next partition
FixNextPartition ==
    /\ pc = "fix"
    /\ fix.running /\ fix.selected /\ fix.columns = {}
    /\ fix' = [fix EXCEPT !.partitions = Tail(@), !.selected = FALSE]
    /\ UNCHANGED <<sched, src_rows, dest_rows, si, di, config, partition, pairs,
                   results, events, iters, sample, seen_pks, writer, db,
                   pc, err>>
    /\ UNCHANGED <<written, todo, pass1, dest_table>>

\* the loop over the partitions is over: fix_mismatches returns
FixEnd ==
    /\ pc = "fix"
    /\ fix.running /\ fix.partitions = <<>>
    /\ fix' = [fix EXCEPT !.running = FALSE, !.run = @ + 1,
                          !.dest1 = IF fix.run = 0 THEN dest_table ELSE @]
    /\ pc' = "repaired"
    /\ UNCHANGED <<sched, src_rows, dest_rows, si, di, config, partition, pairs,
                   results, events, iters, sample, seen_pks, writer, db, err>>
    /\ UNCHANGED <<written, todo, pass1, dest_table>>

\* -------------------------------------------------- the repair on its own
\* one pass of the sink over the records recs of a partition
SinkPass(d, recs) ==
    Close(WriteAll([w |-> NewWriter(DefaultBatchSize), db |-> d,
                    exc |-> "none"], recs)).db

\* The records a pass may have written for key k of partition p: none, a
\* mismatch record with a source value, with none or with an empty one,
\* mismatch records of two columns, or a row-level record.
MismatchOf(k, p, sv) ==
    [primary_key |-> k, type |-> TextV("mismatch"), column |-> TextV("col"),
     source_value |-> sv, dest_value |-> FloatV(20),
     year |-> p.year, month |-> p.month, week |-> PartitionWeek(p)]

RecordsOf(k, p) ==
    {<<>>, <<MismatchOf(k, p, FloatV(0))>>, <<MismatchOf(k, p, None)>>,
     <<MismatchOf(k, p, TextV(""))>>,
     <<MismatchOf(k, p, FloatV(0)),
       [MismatchOf(k, p, FloatV(0)) EXCEPT !.column = TextV("col2")]>>,
     <<[MismatchOf(k, p, Row(k, FloatV(0))) EXCEPT
          !.type = TextV("missing_in_dest"), !.column = None,
          !.dest_value = None]>>}

\* the output tables two passes leave, of P1 and then of P2
OutputTables ==
    {SinkPass(SinkPass(EmptyDb, a1 \o a2), b1 \o b2) :
        a1 \in RecordsOf(IntV(1), P1),
        a2 \in {<<>>, <<MismatchOf(IntV(2), P1, FloatV(0))>>,
                <<MismatchOf(IntV(2), P1, None)>>},
        b1 \in {<<>>, <<MismatchOf(IntV(1), P2, FloatV(0))>>},
        b2 \in {<<>>, <<MismatchOf(IntV(2), P2, FloatV(0))>>}}

\* the destination tables: the row of key 2 in both months, that of key 1
\* in either, both or none
DestTables ==
    {a \o b \o <<DestRow(IntV(2), FloatV(20), P1),
                 DestRow(IntV(2), FloatV(20), P2)>> :
        a \in {<<>>, <<DestRow(IntV(1), FloatV(20), P1)>>},
        b \in {<<>>, <<DestRow(IntV(1), FloatV(20), P2)>>}}

\* partitioning.scope of the config
RepairScopes == {<<P1>>, <<P1, P2>>, <<P1W1>>}

\* fix_mismatches.main is run once more
FixAgain ==
    /\ pc = "repaired"
    /\ fix.run < MaxRuns
    /\ fix' = StartFix(fix, fix.dry_run, fix.skip_nulls, fix.scope,
                       db.table, dest_table)
    /\ pc' = "fix"
    /\ UNCHANGED <<sched, src_rows, dest_rows, si, di, config, partition, pairs,
                   results, events, iters, sample, seen_pks, writer, db, err>>
    /\ UNCHANGED <<written, todo, pass1, dest_table>>

\* state when fix_mismatches.main has parsed --apply and read the config
InitRepair ==
    /\ src_rows = <<>> /\ dest_rows = <<>>
    /\ si = 1 /\ di = 1
    /\ config = SerialConfig
    /\ partition = P1
    /\ pairs = <<>> /\ results = <<>> /\ events = <<>> /\ iters = 0
    /\ sample = <<>> /\ seen_pks = {}
    /\ writer = NewWriter(DefaultBatchSize)
    /\ db \in OutputTables
    /\ dest_table \in DestTables
    /\ pc = "fix" /\ err = "none"
    /\ written = <<>> /\ todo = <<>>
    /\ pass1 = NoPass
    /\ sched = NoSched
    /\ \E dry_run \in BOOLEAN, skip_nulls \in BOOLEAN, scope \in RepairScopes :
          fix = StartFix(NoFix, dry_run, skip_nulls, scope,
                         db.table, dest_table)

NextRepair ==
    \/ FixSelect
    \/ FixColumn
    \/ FixNextPartition
    \/ FixEnd
    \/ FixAgain

SpecRepair == InitRepair /\ [][NextRepair]_vars

\* ------------------------------------------ main over several partitions
\* The source holds, in every partition, the rows of the keys with
\* col = 0.0; the destination rows of partition p
InPartition(d, p) ==
    /\ SqlEq(d.year, p.year)
    /\ SqlEq(d.month, p.month)
    /\ "week" \in DOMAIN p => SqlEq(d.week, p.week)

\* the keys of the partition at hand whose rows differ (the source value is
\* not the destination value) and whose mismatch record is yet to be written
Pending ==
    {k \in SinkKeys :
        /\ \E i \in 1..Len(dest_table) :
            /\ dest_table[i][primary_key] = k
            /\ InPartition(dest_table[i], partition)
            /\ ~ValuesEqual(FloatV(0), dest_table[i].col)
        /\ \A n \in 1..Len(written) : written[n].primary_key # k}

\* the next mismatch record of the pass, in key order
NextRecord ==
    LET k == CHOOSE k \in Pending : \A j \in Pending : k.v <= j.v
        d == CHOOSE d \in {dest_table[i] : i \in 1..Len(dest_table)} :
                d[primary_key] = k /\ InPartition(d, partition)
    IN  MismatchRecord([primary_key |-> k, partition |-> partition],
                       [column |-> TextV("col"), source_value |-> FloatV(0),
                        dest_value |-> d.col])

\* write_record for the next mismatch of the partition
PassWrite ==
    /\ pc = "consume"
    /\ Pending # {}
    /\ WriteRecord(NextRecord, "consume")
    /\ UNCHANGED <<sched, src_rows, dest_rows, si, di, config, partition, pairs,
                   results, events, iters, sample, seen_pks>>
    /\ UNCHANGED <<todo, pass1, dest_table, fix>>

\* The connection fails while the sink flushes: in the write that fills a
\* batch, or in the flush that ends the pass.  flush re-raises, the flush
\* that __exit__ attempts fails too, and the exception leaves
\* process_partition and, re-raised by main (lines 409-411), the run.
FlushRaises ==
    /\ pc = "consume"
    /\ IF Pending # {}
       THEN /\ Len(writer.buffer) + 1 >= writer.batch_size
            /\ writer' = [PrepareTable(Sink, NextRecord).w EXCEPT
                            !.buffer = Append(@, NextRecord)]
            /\ db' = PrepareTable(Sink, NextRecord).db
            /\ written' = Append(written, NextRecord)
       ELSE /\ writer.buffer # <<>>
            /\ UNCHANGED <<writer, db, written>>
    /\ pc' = "error"
    /\ err' = "OperationalError"
    /\ UNCHANGED <<sched, src_rows, dest_rows, si, di, config, partition, pairs,
                   results, events, iters, sample, seen_pks>>
    /\ UNCHANGED <<todo, pass1, dest_table, fix>>

\* every result has been consumed: writer.flush() (line 214)
PassFlush ==
    /\ Pending = {}
    /\ FinalFlush

\* lines 216-236: process_partition calls fix_mismatches.main with --apply;
\* main reads the config (skip_nulls is left at its default) and the
\* PARTITION_* variables set for it are read by nobody
CallRepair ==
    /\ pc = "done"
    /\ fix' = StartFix(fix, FALSE, TRUE, fix.scope, db.table, dest_table)
    /\ pc' = "fix"
    /\ UNCHANGED <<sched, src_rows, dest_rows, si, di, config, partition, pairs,
                   results, events, iters, sample, seen_pks, writer, db, err>>
    /\ UNCHANGED <<written, todo, pass1, dest_table>>

\* main's loop (lines 366-398): process_partition for the next partition
StartNext ==
    /\ pc = "repaired"
    /\ IF todo = <<>>
       THEN /\ pc' = "finished"
            /\ UNCHANGED <<partition, todo, writer, written>>
       ELSE /\ pc' = "consume"
            /\ partition' = Head(todo)
            /\ todo' = Tail(todo)
            /\ writer' = NewWriter(writer.batch_size)
            /\ written' = <<>>
    /\ UNCHANGED <<sched, src_rows, dest_rows, si, di, config, pairs, results,
                   events, iters, sample, seen_pks, db, err>>
    /\ UNCHANGED <<pass1, dest_table, fix>>

\* the script is started again after a run that an exception has ended
Restart ==
    /\ pc = "error"
    /\ ~pass1.done
    /\ pass1' = [done |-> TRUE, table |-> db.table]
    /\ partition' = Head(fix.scope)
    /\ todo' = Tail(fix.scope)
    /\ writer' = NewWriter(writer.batch_size)
    /\ written' = <<>>
    /\ pc' = "consume"
    /\ err' = "none"
    /\ UNCHANGED <<sched, src_rows, dest_rows, si, di, config, pairs, results,
                   events, iters, sample, seen_pks, db>>
    /\ UNCHANGED <<dest_table, fix>>

\* partitioning.scope of the config: two months, or a month and a week
RunScopes == {<<P1, P2>>, <<P2, P1W1>>}

RunBatchSizes == {1, DefaultBatchSize}

\* the destination rows of the two keys in the two months, each equal to
\* its source row or not
RunDestTables ==
    {<<DestRow(IntV(1), a, P1), DestRow(IntV(2), b, P1),
       DestRow(IntV(1), c, P2), DestRow(IntV(2), d, P2)>> :
        a \in {FloatV(0), FloatV(20)}, b \in {FloatV(0), FloatV(20)},
        c \in {FloatV(0), FloatV(20)}, d \in {FloatV(0), FloatV(20)}}

InitRun ==
    /\ src_rows = <<>> /\ dest_rows = <<>>
    /\ si = 1 /\ di = 1
    /\ config = SerialConfig
    /\ pairs = <<>> /\ results = <<>> /\ events = <<>> /\ iters = 0
    /\ sample = <<>> /\ seen_pks = {}
    /\ \E bs \in RunBatchSizes : writer = NewWriter(bs)
    /\ db = EmptyDb
    /\ dest_table \in RunDestTables
    /\ pc = "consume" /\ err = "none"
    /\ written = <<>>
    /\ pass1 = NoPass
    /\ sched = NoSched
    /\ \E scope \in RunScopes :
        /\ partition = Head(scope)
        /\ todo = Tail(scope)
        /\ fix = [NoFix EXCEPT !.scope = scope]

NextRun ==
    \/ PassWrite
    \/ FlushRaises
    \/ PassFlush
    \/ ExitWriter
    \/ CallRepair
    \/ FixSelect
    \/ FixColumn
    \/ FixNextPartition
    \/ FixEnd
    \/ StartNext
    \/ Restart

SpecRun == InitRun /\ [][NextRun]_vars

\* ------------------------------------------------------- get_partitions
\* A str as the sequence of its characters, here decimal digits.
Chars(c) == [t |-> "chars", c |-> c]

\* the decimal digits of a natural number
RECURSIVE Digits(_)
Digits(n) == IF n < 10 THEN <<n>> ELSE Append(Digits(n \div 10), n % 10)

\* str(x): of an int its decimal text, of a str the str itself
Str(x) == IF x.t = "int" THEN Chars(Digits(x.v)) ELSE x

\* zfill as it would be if it padded nothing
Zfill_None(s, width) == s

\* s.zfill(width): zeros in front until the text has width characters
RECURSIVE Zfill(_, _)
Zfill(s, width) ==
    IF Len(s.c) >= width THEN s ELSE Zfill(Chars(<<0>> \o s.c), width)

\* the descriptors of one scope entry (lines 14-28)
RECURSIVE Weeks(_, _, _)
Weeks(year, month, weeks) ==
    IF weeks = <<>> THEN <<>>
    ELSE <<[year |-> year, month |-> month, week |-> Str(Head(weeks))]>>
         \o Weeks(year, month, Tail(weeks))

EntryPartitions(entry) ==
    LET year == Str(entry.year)
        month == Zfill(Str(entry.month), 2)
    IN  IF "weeks" \in DOMAIN entry THEN Weeks(year, month, entry.weeks)
        ELSE <<[year |-> year, month |-> month]>>

RECURSIVE ScopePartitions(_)
ScopePartitions(scope) ==
    IF scope = <<>> THEN <<>>
    ELSE EntryPartitions(Head(scope)) \o ScopePartitions(Tail(scope))

\* get_partitions(config), as the list main makes of it (line 309)
GetPartitions(cfg) ==
    ScopePartitions(IF "partitioning" \in DOMAIN cfg
                    THEN cfg.partitioning.scope ELSE <<>>)

\* the entries of partitioning.scope: year and month as the YAML gives
\* them, an int or a str, and a list of weeks or none
ScopeEntries ==
    [year : {IntV(2021), Chars(<<2, 0, 2, 1>>)},
     month : {IntV(1), IntV(12), Chars(<<1>>)}]
    \cup
    [year : {IntV(2021), Chars(<<2, 0, 2, 1>>)},
     month : {IntV(1), IntV(12), Chars(<<1>>)},
     weeks : {<<>>, <<IntV(1), IntV(2)>>, <<Chars(<<2>>), IntV(1)>>}]

ScopeConfigs ==
    {[comparison |-> SerialConfig]}
    \cup {[partitioning |-> [scope |-> sc]] :
            sc \in SeqsUpTo(ScopeEntries, MaxScope)}

InitPartitions ==
    /\ src_rows = <<>> /\ dest_rows = <<>>
    /\ si = 1 /\ di = 1
    /\ config \in ScopeConfigs
    /\ partition = P1
    /\ pairs = <<>> /\ results = <<>> /\ events = <<>> /\ iters = 0
    /\ sample = <<>> /\ seen_pks = {}
    /\ writer = NewWriter(DefaultBatchSize)
    /\ db = EmptyDb
    /\ pc = "partitions" /\ err = "none"
    /\ written = <<>> /\ todo = <<>>
    /\ pass1 = NoPass /\ dest_table = <<>> /\ fix = NoFix
    /\ sched = NoSched

\* main, line 309: partitions = list(get_partitions(config))
ListPartitions ==
    /\ pc = "partitions"
    /\ todo' = GetPartitions(config)
    /\ pc' = "listed"
    /\ UNCHANGED <<sched, src_rows, dest_rows, si, di, config, partition, pairs,
                   results, events, iters, sample, seen_pks, writer, db, err>>
    /\ UNCHANGED <<written, pass1, dest_table, fix>>

NextPartitions == ListPartitions

SpecPartitions == InitPartitions /\ [][NextPartitions]_vars

\* ---------------------------------------------- hashing and comparing a pair
\* the values of a row: None, floats a few millionths apart, and strs that
\* are neither numbers nor dates
HashValues ==
    {None, FloatV(4), FloatV(6), TextV("a"), TextV("ab"), TextV("bc"),
     TextV("c")}

HashRows == {Row(k, c) : k \in HashValues, c \in HashValues}

\* comparison.only_columns: absent, or naming one of the two columns
HashConfigs ==
    Configs
    \cup {cfg @@ [only_columns |-> oc] :
            cfg \in Configs, oc \in {<<"col">>, <<"id">>}}

InitHash ==
    /\ src_rows = <<>> /\ dest_rows = <<>>
    /\ si = 1 /\ di = 1
    /\ config \in HashConfigs
    /\ partition = P1
    /\ pairs \in {<<<<s, d>>>> : s \in HashRows, d \in HashRows}
    /\ results = <<>> /\ events = <<>> /\ iters = 0
    /\ sample = <<>> /\ seen_pks = {}
    /\ writer = NewWriter(DefaultBatchSize)
    /\ db = EmptyDb
    /\ pc = "hash" /\ err = "none"
    /\ written = <<>> /\ todo = <<>>
    /\ pass1 = NoPass /\ dest_table = <<>> /\ fix = NoFix
    /\ sched = NoSched

\* compute_row_hash of the two rows of the pair
HashPair ==
    /\ pc = "hash"
    /\ events' = <<[kind |-> "hash",
                    source_hash |-> ComputeRowHash(pairs[1][1]),
                    dest_hash |-> ComputeRowHash(pairs[1][2])]>>
    /\ pc' = "hashed"
    /\ UNCHANGED <<sched, src_rows, dest_rows, si, di, config, partition, pairs,
                   results, iters, sample, seen_pks, writer, db, err>>
    /\ UNCHANGED <<written, todo, pass1, dest_table, fix>>

\* compare_row_pairs on the pair, when it is a MATCH pair
ComparePair ==
    /\ pc = "hashed"
    /\ PyEq(pairs[1][1][primary_key], pairs[1][2][primary_key])
    /\ results' = CompareRowPairs(pairs, config, partition)
    /\ pc' = "compared"
    /\ UNCHANGED <<sched, src_rows, dest_rows, si, di, config, partition, pairs,
                   events, iters, sample, seen_pks, writer, db, err>>
    /\ UNCHANGED <<written, todo, pass1, dest_table, fix>>

NextHash ==
    \/ HashPair
    \/ ComparePair

SpecHash == InitHash /\ [][NextHash]_vars

\* ------------------------------------------------------- main's threads
\* The threads of a run: main, the pool worker that runs a week partition,
\* the two readers of a partition, its comparison workers.
MainThread == <<"main">>
PoolThread(p) == <<"pool", p>>
ReaderThread(p, side) == <<"reader", p, side>>
WorkerThread(p) == <<"worker", p>>

\* a connector that hands every caller the one connection of its database
Connect_Shared(p, side) == <<0, side>>

\* get_oracle_connection / get_sqlserver_connection: each call connects
\* anew; the connection is named by the partition run that opened it and
\* what it opened it for ("src", "dest", and "fix" in fix_mismatches)
Connect(p, side) == <<p, side>>

\* the run of process_partition for one partition: its position, the
\* thread that runs it, the partition whose done_event is its start_event
\* (0: an event already set), its own done_event, the state of its two
\* fetches, and the walk and the comparison in outline: whether row_pairs
\* has been driven to its end, the pairs not yet compared, whether they
\* have been hashed, the results not yet consumed
NewRun ==
    [st |-> "new", thread |-> MainThread, after |-> 0, done_event |-> FALSE,
     readers |-> [src |-> "idle", dest |-> "idle"],
     walked |-> FALSE, pending |-> 0, hashed |-> FALSE, result |-> 0]

\* main, lines 311-317: the keys in the order of their first appearance, and
\* the partitions of each key in the order of the list
KeyOf(part) == <<part.year, part.month>>

RECURSIVE OrderOf(_, _)
OrderOf(parts, seen) ==
    IF parts = <<>> THEN <<>>
    ELSE IF KeyOf(Head(parts)) \in seen THEN OrderOf(Tail(parts), seen)
    ELSE <<KeyOf(Head(parts))>>
         \o OrderOf(Tail(parts), seen \cup {KeyOf(Head(parts))})

Groups(parts) ==
    LET order == OrderOf(parts, {})
    IN  [n \in 1..Len(order) |->
            SelectSeq([p \in 1..Len(parts) |-> p],
                      LAMBDA p : KeyOf(parts[p]) = order[n])]

\* line 321: the weeks of a month run in a pool
Concurrent(parts, group) ==
    /\ Len(group) > 1
    /\ \A n \in 1..Len(group) : "week" \in DOMAIN parts[group[n]]

Ended(run) == run.st \in {"done", "failed"}

\* a group is left before its runs have ended
Joined_NoWait(s, group) == TRUE

\* lines 363-364 and the exit of the executor's with block, or the return
\* of the calls of lines 366-398: every run of the group has ended
Joined(s, group) == \A n \in 1..Len(group) : Ended(s.runs[group[n]])

\* a thread makes a call on a connection: recorded with the threads that
\* are inside a call on that connection at this moment
Use(s, conn, thread) ==
    [s EXCEPT !.uses = @ \cup
        {[conn |-> conn, thread |-> thread,
          with |-> {x[2] : x \in {y \in s.inside : y[1] = conn}}]}]

\* a thread begins a call on a connection that lasts
Enter(s, conn, thread) ==
    [Use(s, conn, thread) EXCEPT !.inside = @ \cup {<<conn, thread>>}]

\* a thread calls the sink of run p
Call(s, p, thread, op) ==
    [s EXCEPT !.calls = @ \cup {[sink |-> p, thread |-> thread, op |-> op]}]

\* row_pairs runs in a comparison worker
Iterating_InWorker(s, p) == WorkerThread(p)

\* the thread that iterates row_pairs() and so calls write_record from it:
\* the one that called compare_row_pairs (serial: the loop of line 401;
\* thread: the list of futures of lines 557-560; batch: list(row_pairs),
\* line 179)
Iterating(s, p) == s.runs[p].thread

\* fix_mismatches selects the mismatches of every partition of the scope;
\* for a partition with a week the SELECT names src.[week] and fails
RepairFails(parts) == \E n \in 1..Len(parts) : "week" \in DOMAIN parts[n]

\* the scopes of the runs: two weeks of a month and a later month; the
\* weeks of a month given in two entries around another month; months
\* only, one of them given twice; a month given with a week and without
Entry(month) == [year |-> IntV(2021), month |-> IntV(month)]
WeekEntry(month, weeks) == Entry(month) @@ [weeks |-> weeks]

ThreadScopes ==
    {<<WeekEntry(1, <<IntV(1), IntV(2)>>), Entry(2)>>,
     <<WeekEntry(1, <<IntV(1)>>), Entry(2), WeekEntry(1, <<IntV(2)>>)>>,
     <<Entry(1), Entry(2), Entry(1)>>,
     <<Entry(1), Entry(2)>>,
     <<WeekEntry(1, <<IntV(1)>>), Entry(1)>>}

\* one configuration per comparison mode
ThreadModes == {cfg \in Configs : cfg.use_row_hash /\ cfg.include_nulls}

InitThreads ==
    /\ src_rows = <<>> /\ dest_rows = <<>>
    /\ si = 1 /\ di = 1
    /\ config \in [partitioning : [scope : ThreadScopes,
                                   max_partition_workers : {1, 2}],
                   comparison : ThreadModes]
    /\ partition = P1
    /\ pairs = <<>> /\ results = <<>> /\ events = <<>> /\ iters = 0
    /\ sample = <<>> /\ seen_pks = {}
    /\ writer = NewWriter(DefaultBatchSize)
    /\ db = EmptyDb
    /\ pc = "partitions" /\ err = "none"
    /\ written = <<>> /\ todo = <<>>
    /\ pass1 = NoPass /\ dest_table = <<>> /\ fix = NoFix
    /\ sched = NoSched

\* main, lines 311-317
GroupPartitions ==
    /\ pc = "listed"
    /\ sched' = [sched EXCEPT !.groups = Groups(todo),
                              !.runs = [p \in 1..Len(todo) |-> NewRun]]
    /\ pc' = "groups"
    /\ UNCHANGED <<src_rows, dest_rows, si, di, config, partition, pairs,
                   results, events, iters, sample, seen_pks, writer, db, err>>
    /\ UNCHANGED <<written, todo, pass1, dest_table, fix>>

\* lines 322-361: every week of the group is submitted to a pool of
\* len(parts) workers; the start_event of each is the done_event of the one
\* before it, that of the first is set
SubmitWeeks ==
    /\ pc = "groups" /\ sched.groups # <<>>
    /\ Concurrent(todo, Head(sched.groups))
    /\ LET group == Head(sched.groups)
       IN  sched' = [sched EXCEPT !.runs =
                [p \in DOMAIN @ |->
                    IF \E n \in 1..Len(group) : group[n] = p
                    THEN LET n == CHOOSE n \in 1..Len(group) : group[n] = p
                         IN  [@[p] EXCEPT
                                !.st = "waiting", !.thread = PoolThread(p),
                                !.after = IF n = 1 THEN 0 ELSE group[n - 1]]
                    ELSE @[p]]]
    /\ pc' = "join"
    /\ UNCHANGED <<src_rows, dest_rows, si, di, config, partition, pairs,
                   results, events, iters, sample, seen_pks, writer, db, err>>
    /\ UNCHANGED <<written, todo, pass1, dest_table, fix>>

\* lines 363-364: the results of the futures, then the exit of the pool
JoinWeeks ==
    /\ pc = "join"
    /\ Joined(sched, Head(sched.groups))
    /\ LET group == Head(sched.groups)
       IN  IF \E n \in 1..Len(group) : sched.runs[group[n]].st = "failed"
           THEN pc' = "failed" /\ sched' = sched
           ELSE pc' = "groups"
                /\ sched' = [sched EXCEPT !.groups = Tail(@)]
    /\ UNCHANGED <<src_rows, dest_rows, si, di, config, partition, pairs,
                   results, events, iters, sample, seen_pks, writer, db, err>>
    /\ UNCHANGED <<written, todo, pass1, dest_table, fix>>

\* lines 366-398: main calls process_partition for the next partition of
\* the group, with a start_event that is set
CallPartition ==
    /\ pc = "groups" /\ sched.groups # <<>>
    /\ ~Concurrent(todo, Head(sched.groups))
    /\ LET group == Head(sched.groups)
           n == CHOOSE n \in 1..Len(group) :
                    /\ sched.runs[group[n]].st = "new"
                    /\ \A k \in 1..(n - 1) : sched.runs[group[k]].st # "new"
       IN  sched' = [sched EXCEPT !.runs[group[n]].st = "waiting"]
    /\ pc' = "call"
    /\ UNCHANGED <<src_rows, dest_rows, si, di, config, partition, pairs,
                   results, events, iters, sample, seen_pks, writer, db, err>>
    /\ UNCHANGED <<written, todo, pass1, dest_table, fix>>

\* process_partition returns to main or raises
ReturnToMain ==
    /\ pc = "call"
    /\ LET group == Head(sched.groups)
           n == CHOOSE n \in 1..Len(group) :
                    /\ sched.runs[group[n]].st # "new"
                    /\ \A k \in (n + 1)..Len(group) :
                          sched.runs[group[k]].st = "new"
       IN  /\ Ended(sched.runs[group[n]])
           /\ IF sched.runs[group[n]].st = "failed"
              THEN pc' = "failed" /\ sched' = sched
              ELSE /\ pc' = "groups"
                   /\ sched' = IF n = Len(group) /\ Joined(sched, group)
                               THEN [sched EXCEPT !.groups = Tail(@)]
                               ELSE sched
    /\ UNCHANGED <<src_rows, dest_rows, si, di, config, partition, pairs,
                   results, events, iters, sample, seen_pks, writer, db, err>>
    /\ UNCHANGED <<written, todo, pass1, dest_table, fix>>

\* no group is left: main ends
MainEnd ==
    /\ pc = "groups" /\ sched.groups = <<>>
    /\ pc' = "end"
    /\ UNCHANGED <<src_rows, dest_rows, si, di, config, partition, pairs,
                   results, events, iters, sample, seen_pks, writer, db, err>>
    /\ UNCHANGED <<written, todo, pass1, dest_table, sched, fix>>

\* an event that is set whatever the run before has done
StartEvent_Set(s, p) == TRUE

\* line 63, start_event.wait(): the event is the one main set (lines 323-324
\* and 369-370) or the done_event of the week submitted before (line 358)
StartEvent(s, p) ==
    IF s.runs[p].after = 0 THEN TRUE
    ELSE s.runs[s.runs[p].after].done_event

\* process_partition, lines 63-98: past start_event.wait() the run opens
\* its two connections, takes a cursor of dest_conn and submits the two
\* fetches
Begin ==
    /\ \E p \in DOMAIN sched.runs :
        LET run == sched.runs[p]
        IN  /\ run.st = "waiting"
            /\ StartEvent(sched, p)
            /\ sched' = [Use(sched, Connect(p, "dest"), run.thread) EXCEPT
                            !.runs[p].st = "fetching",
                            !.runs[p].readers =
                                [src |-> "submitted", dest |-> "submitted"],
                            !.opened = @ \cup {<<Connect(p, "src"), p>>,
                                                <<Connect(p, "dest"), p>>},
                            !.started = Append(@, p)]
    /\ UNCHANGED <<src_rows, dest_rows, si, di, config, partition, pairs,
                   results, events, iters, sample, seen_pks, writer, db, err>>
    /\ UNCHANGED <<written, todo, pass1, dest_table, fix, pc>>

\* fetch_all_rows in a reader thread: the query begins on the connection
\* of its side; or the call raises TypeError before it touches the
\* connection (fetch_rows takes no pk_value)
ReaderRun ==
    /\ \E p \in DOMAIN sched.runs, side \in {"src", "dest"} :
        /\ sched.runs[p].readers[side] = "submitted"
        /\ \/ sched' = [Enter(sched, Connect(p, side), ReaderThread(p, side))
                            EXCEPT !.runs[p].readers[side] = "running"]
           \/ sched' = [sched EXCEPT !.runs[p].readers[side] = "TypeError"]
    /\ UNCHANGED <<src_rows, dest_rows, si, di, config, partition, pairs,
                   results, events, iters, sample, seen_pks, writer, db, err>>
    /\ UNCHANGED <<written, todo, pass1, dest_table, fix, pc>>

\* the rows have been materialized: the reader is done with the connection
ReaderEnd ==
    /\ \E p \in DOMAIN sched.runs, side \in {"src", "dest"} :
        /\ sched.runs[p].readers[side] = "running"
        /\ sched' = [sched EXCEPT
                        !.runs[p].readers[side] = "rows",
                        !.inside = @ \ {<<Connect(p, side),
                                          ReaderThread(p, side)>>}]
    /\ UNCHANGED <<src_rows, dest_rows, si, di, config, partition, pairs,
                   results, events, iters, sample, seen_pks, writer, db, err>>
    /\ UNCHANGED <<written, todo, pass1, dest_table, fix, pc>>

\* lines 100-112: both futures have their result and the pool of the two
\* readers is left.  With two lists done_event is set and the sink is
\* made; an exception of a fetch leaves process_partition through the exit
\* of the two connections
Fetched ==
    /\ \E p \in DOMAIN sched.runs :
        LET run == sched.runs[p]
        IN  /\ run.st = "fetching"
            /\ \A side \in {"src", "dest"} :
                    run.readers[side] \in {"rows", "TypeError"}
            /\ IF \E side \in {"src", "dest"} : run.readers[side] = "TypeError"
               THEN sched' =
                      [Use(Use(sched, Connect(p, "dest"), run.thread),
                           Connect(p, "src"), run.thread)
                       EXCEPT !.runs[p].st = "failed"]
               ELSE sched' = [sched EXCEPT !.runs[p].st = "walking",
                                           !.runs[p].done_event = TRUE]
    /\ UNCHANGED <<src_rows, dest_rows, si, di, config, partition, pairs,
                   results, events, iters, sample, seen_pks, writer, db, err>>
    /\ UNCHANGED <<written, todo, pass1, dest_table, fix, pc>>

\* row_pairs() is driven to its end: it writes a row-level record, which
\* prepares the table on the sink's connection, and yields a MATCH pair
Walk ==
    /\ \E p \in DOMAIN sched.runs :
        LET run == sched.runs[p]
        IN  /\ run.st = "walking" /\ ~run.walked
            /\ sched' =
                 [Use(Call(sched, p, Iterating(sched, p), "write"),
                      Connect(p, "dest"), Iterating(sched, p))
                  EXCEPT !.runs[p].walked = TRUE, !.runs[p].pending = 1]
    /\ UNCHANGED <<src_rows, dest_rows, si, di, config, partition, pairs,
                   results, events, iters, sample, seen_pks, writer, db, err>>
    /\ UNCHANGED <<written, todo, pass1, dest_table, fix, pc>>

\* batch mode: a hashing thread of _filter_pairs_by_hash hashes the pair
WorkerHash ==
    /\ \E p \in DOMAIN sched.runs :
        LET run == sched.runs[p]
        IN  /\ run.st = "walking" /\ run.pending = 1 /\ ~run.hashed
            /\ config.comparison.parallel
            /\ config.comparison.parallel_mode = "batch"
            /\ sched' = [sched EXCEPT !.runs[p].hashed = TRUE]
    /\ UNCHANGED <<src_rows, dest_rows, si, di, config, partition, pairs,
                   results, events, iters, sample, seen_pks, writer, db, err>>
    /\ UNCHANGED <<written, todo, pass1, dest_table, fix, pc>>

\* a comparison worker (serial mode: the thread of a column) compares the
\* pair and finds a difference or none; it touches neither sink nor
\* connection
WorkerCompare ==
    /\ \E p \in DOMAIN sched.runs, found \in {0, 1} :
        LET run == sched.runs[p]
        IN  /\ run.st = "walking" /\ run.pending = 1
            /\ (config.comparison.parallel
                /\ config.comparison.parallel_mode = "batch") => run.hashed
            /\ sched' = [sched EXCEPT !.runs[p].pending = 0,
                                      !.runs[p].result = found]
    /\ UNCHANGED <<src_rows, dest_rows, si, di, config, partition, pairs,
                   results, events, iters, sample, seen_pks, writer, db, err>>
    /\ UNCHANGED <<written, todo, pass1, dest_table, fix, pc>>

\* lines 177-212: the run's thread takes a result and writes its records;
\* the flat record of the serial mode raises KeyError, and the exit of the
\* with block closes the sink, which flushes
Consume ==
    /\ \E p \in DOMAIN sched.runs :
        LET run == sched.runs[p]
        IN  /\ run.st = "walking" /\ run.result = 1
            /\ IF config.comparison.parallel
               THEN sched' = [Call(sched, p, run.thread, "write")
                              EXCEPT !.runs[p].result = 0]
               ELSE sched' =
                      [Use(Use(Call(sched, p, run.thread, "flush"),
                               Connect(p, "dest"), run.thread),
                           Connect(p, "src"), run.thread)
                       EXCEPT !.runs[p].result = 0, !.runs[p].st = "failed"]
    /\ UNCHANGED <<src_rows, dest_rows, si, di, config, partition, pairs,
                   results, events, iters, sample, seen_pks, writer, db, err>>
    /\ UNCHANGED <<written, todo, pass1, dest_table, fix, pc>>

\* line 214 and the exit of the with block: flush, then close
FlushSink ==
    /\ \E p \in DOMAIN sched.runs :
        LET run == sched.runs[p]
        IN  /\ run.st = "walking" /\ run.walked
            /\ run.pending = 0 /\ run.result = 0
            /\ sched' = [Use(Call(sched, p, run.thread, "flush"),
                             Connect(p, "dest"), run.thread)
                         EXCEPT !.runs[p].st = "repair"]
    /\ UNCHANGED <<src_rows, dest_rows, si, di, config, partition, pairs,
                   results, events, iters, sample, seen_pks, writer, db, err>>
    /\ UNCHANGED <<written, todo, pass1, dest_table, fix, pc>>

\* lines 216-236: fix_mismatches_main() in the run's thread, on a
\* connection of its own; then the exit of the run's two connections
Repair ==
    /\ \E p \in DOMAIN sched.runs :
        LET run == sched.runs[p]
        IN  /\ run.st = "repair"
            /\ sched' =
                 [Use(Use(Use(sched, Connect(p, "fix"), run.thread),
                          Connect(p, "dest"), run.thread),
                      Connect(p, "src"), run.thread)
                  EXCEPT !.opened = @ \cup {<<Connect(p, "fix"), p>>},
                         !.runs[p].st =
                            IF RepairFails(todo) THEN "failed" ELSE "done"]
    /\ UNCHANGED <<src_rows, dest_rows, si, di, config, partition, pairs,
                   results, events, iters, sample, seen_pks, writer, db, err>>
    /\ UNCHANGED <<written, todo, pass1, dest_table, fix, pc>>

NextThreads ==
    \/ ListPartitions
    \/ GroupPartitions
    \/ SubmitWeeks
    \/ JoinWeeks
    \/ CallPartition
    \/ ReturnToMain
    \/ MainEnd
    \/ Begin
    \/ ReaderRun
    \/ ReaderEnd
    \/ Fetched
    \/ Walk
    \/ WorkerHash
    \/ WorkerCompare
    \/ Consume
    \/ FlushSink
    \/ Repair

SpecThreads == InitThreads /\ [][NextThreads]_vars

\* ------------------------------------------ the comparison in every mode
\* compare_rows (lines 334-378): nothing when use_row_hash is on and the
\* hashes agree; else one mismatch for every column of the column map, the
\* key column included, whose sanitized values values_equal tells apart.
\* The function takes the config for its log lines only.
CompareRows(s, d, use_row_hash) ==
    LET srcHash == ComputeRowHash(s)
        destHash == ComputeRowHash(d)
        Differs(c) == ~ValuesEqual(Sanitize(s[c]), Sanitize(d[c]))
        Diff(c) ==
            IF use_row_hash
            THEN [column |-> TextV(c), source_value |-> Sanitize(s[c]),
                  dest_value |-> Sanitize(d[c]),
                  source_hash |-> srcHash, dest_hash |-> destHash]
            ELSE [column |-> TextV(c), source_value |-> Sanitize(s[c]),
                  dest_value |-> Sanitize(d[c])]
        differing == SelectSeq(LogicalColumns, Differs)
    IN  IF use_row_hash /\ srcHash = destHash THEN <<>>
        ELSE [n \in 1..Len(differing) |-> Diff(differing[n])]

\* the MATCH pairs handed to the comparison: the n-th pair has the key n
\* on both sides.  The values: 0.0 and 0.000004 have one hash, 0.000004
\* and 0.000006 have two and are equal within the tolerance, 0.00002 is
\* another number
ModeSourceValues == {None, FloatV(0), FloatV(4)}
ModeDestValues == {None, FloatV(4), FloatV(6), FloatV(20)}

ModePairs ==
    UNION {{ps \in [1..n -> (LET rows == {Row(IntV(k), c) :
                                            k \in 1..MaxLen,
                                            c \in ModeSourceValues
                                                  \cup ModeDestValues}
                             IN  rows \X rows)] :
                \A i \in 1..n : /\ ps[i][1].id = IntV(i)
                                /\ ps[i][2].id = IntV(i)
                                /\ ps[i][1].col \in ModeSourceValues
                                /\ ps[i][2].col \in ModeDestValues}
           : n \in 0..MaxLen}

\* the comparison section of the config with the mode set
ModeConfig(cfg, mode) ==
    [parallel |-> mode # "serial",
     parallel_mode |-> IF mode = "batch" THEN "batch" ELSE "thread",
     use_row_hash |-> cfg.use_row_hash,
     include_nulls |-> cfg.include_nulls]

InitModes ==
    /\ src_rows = <<>> /\ dest_rows = <<>>
    /\ si = 1 /\ di = 1
    /\ config \in [use_row_hash : BOOLEAN, include_nulls : BOOLEAN]
    /\ partition = P1
    /\ pairs \in ModePairs
    /\ results = <<>> /\ events = <<>> /\ iters = 0
    /\ sample = <<>> /\ seen_pks = {}
    /\ writer = NewWriter(DefaultBatchSize)
    /\ db = EmptyDb
    /\ pc = "compare_rows" /\ err = "none"
    /\ written = <<>> /\ todo = <<>>
    /\ pass1 = NoPass /\ dest_table = <<>> /\ fix = NoFix
    /\ sched = NoSched

\* compare_rows is called on every pair
CallCompareRows ==
    /\ pc = "compare_rows"
    /\ events' = Append(events,
            [kind |-> "compare_rows",
             out |-> [i \in 1..Len(pairs) |->
                        CompareRows(pairs[i][1], pairs[i][2],
                                    config.use_row_hash)]])
    /\ pc' = "by_pk"
    /\ UNCHANGED <<sched, src_rows, dest_rows, si, di, config, partition, pairs,
                   results, iters, sample, seen_pks, writer, db, err>>
    /\ UNCHANGED <<written, todo, pass1, dest_table, fix>>

\* compare_row_pair_by_pk is called on every pair
CallCompareRowPairByPk ==
    /\ pc = "by_pk"
    /\ events' = Append(events,
            [kind |-> "by_pk",
             out |-> [i \in 1..Len(pairs) |->
                        CompareRowPairByPk(pairs[i],
                                           ModeConfig(config, "thread"),
                                           partition)]])
    /\ pc' = "filter"
    /\ UNCHANGED <<sched, src_rows, dest_rows, si, di, config, partition, pairs,
                   results, iters, sample, seen_pks, writer, db, err>>
    /\ UNCHANGED <<written, todo, pass1, dest_table, fix>>

\* _filter_pairs_by_hash is run over the pairs
CallFilterPairsByHash ==
    /\ pc = "filter"
    /\ events' = Append(events, [kind |-> "filter",
                                 out |-> FilterPairsByHash(pairs)])
    /\ pc' = "serial"
    /\ UNCHANGED <<sched, src_rows, dest_rows, si, di, config, partition, pairs,
                   results, iters, sample, seen_pks, writer, db, err>>
    /\ UNCHANGED <<written, todo, pass1, dest_table, fix>>

\* compare_row_pairs is run over the pairs in one mode after the other
CallCompareRowPairs ==
    /\ pc \in {"serial", "thread", "batch"}
    /\ events' = Append(events,
            [kind |-> pc,
             out |-> CompareRowPairs(pairs, ModeConfig(config, pc),
                                     partition)])
    /\ pc' = IF pc = "serial" THEN "thread"
             ELSE IF pc = "thread" THEN "batch" ELSE "done"
    /\ UNCHANGED <<sched, src_rows, dest_rows, si, di, config, partition, pairs,
                   results, iters, sample, seen_pks, writer, db, err>>
    /\ UNCHANGED <<written, todo, pass1, dest_table, fix>>

NextModes ==
    \/ CallCompareRows
    \/ CallCompareRowPairByPk
    \/ CallFilterPairsByHash
    \/ CallCompareRowPairs

SpecModes == InitModes /\ [][NextModes]_vars

\* -------------------------------------------- discard_matching_rows_by_hash
\* {row[primary_key]: row for row in rows}: of the rows of one key the dict
\* holds the last
ByPk(rows) ==
    [k \in KeysOf(rows) |->
        rows[CHOOSE i \in 1..Len(rows) :
                /\ rows[i].id = k
                /\ \A j \in (i + 1)..Len(rows) : rows[j].id # k]]

\* sorted() of a set of int keys
RECURSIVE SortedKeys(_)
SortedKeys(ks) ==
    IF ks = {} THEN <<>>
    ELSE LET least == CHOOSE k \in ks : \A o \in ks : k.v <= o.v
         IN  <<least>> \o SortedKeys(ks \ {least})

\* lines 101-133: without a key on both sides the two lists are returned
\* as they came; else the rows of the two dicts, less the keys whose two
\* hashes agree, sorted by key
DiscardMatchingRowsByHash(src, dest) ==
    LET source_by_pk == ByPk(src)
        dest_by_pk == ByPk(dest)
        intersect == SortedKeys(DOMAIN source_by_pk \cap DOMAIN dest_by_pk)
        popped == {k \in DOMAIN source_by_pk \cap DOMAIN dest_by_pk :
                      ComputeRowHash(source_by_pk[k])
                          = ComputeRowHash(dest_by_pk[k])}
        src_keys == SortedKeys(DOMAIN source_by_pk \ popped)
        dest_keys == SortedKeys(DOMAIN dest_by_pk \ popped)
    IN  IF intersect = <<>>
        THEN [filtered_src |-> src, filtered_dest |-> dest,
              discarded |-> 0, kept |-> 0]
        ELSE [filtered_src |->
                [n \in 1..Len(src_keys) |-> source_by_pk[src_keys[n]]],
              filtered_dest |->
                [n \in 1..Len(dest_keys) |-> dest_by_pk[dest_keys[n]]],
              discarded |-> Cardinality(popped),
              kept |-> Len(intersect) - Cardinality(popped)]

\* the lists handed to the function: rows of a table with a primary key, so
\* no key twice in a list, in any order
DiscardSourceValues == {FloatV(0), FloatV(20)}
DiscardDestValues == {None, FloatV(4)}

DiscardLists(values) ==
    {rows \in SeqsUpTo({Row(k, c) : k \in IntKeys, c \in values}, MaxLen) :
        \A i, j \in 1..Len(rows) : i # j => rows[i].id # rows[j].id}

InitDiscard ==
    /\ src_rows \in DiscardLists(DiscardSourceValues)
    /\ dest_rows \in DiscardLists(DiscardDestValues)
    /\ si = 1 /\ di = 1
    /\ config = SerialConfig
    /\ partition = P1
    /\ pairs = <<>> /\ results = <<>> /\ events = <<>> /\ iters = 0
    /\ sample = <<>> /\ seen_pks = {}
    /\ writer = NewWriter(DefaultBatchSize)
    /\ db = EmptyDb
    /\ pc = "discard" /\ err = "none"
    /\ written = <<>> /\ todo = <<>>
    /\ pass1 = NoPass /\ dest_table = <<>> /\ fix = NoFix
    /\ sched = NoSched

\* the call of discard_matching_rows_by_hash on the two lists
Discard ==
    /\ pc = "discard"
    /\ results' = <<DiscardMatchingRowsByHash(src_rows, dest_rows)>>
    /\ pc' = "discarded"
    /\ UNCHANGED <<sched, src_rows, dest_rows, si, di, config, partition, pairs,
                   events, iters, sample, seen_pks, writer, db, err>>
    /\ UNCHANGED <<written, todo, pass1, dest_table, fix>>

NextDiscard == Discard

SpecDiscard == InitDiscard /\ [][NextDiscard]_vars

\* ------------------------------------------------------------- fetch_rows
\* dialect.lower(), on the dialect names of the model
Lower(d) ==
    IF d \in {"oracle", "Oracle", "ORACLE"} THEN "oracle"
    ELSE IF d \in {"sqlserver", "SQLServer"} THEN "sqlserver"
    ELSE d

\* what Python takes for true in "and week_column"
Truthy(x) == x # None /\ x # TextV("")

\* int(limit): of an int itself, of the str of a digit that digit
IntOf(x) == IntV(x.v)

\* the physical column taken to be the logical one
PhysicalColumn_Logical(columns, c) == c

\* columns[c]: the physical name of a logical column
PhysicalColumn(columns, c) == columns[c]

\* lines 35-77: the statement and its parameters, or ValueError.  The
\* statement is kept as its clauses after SELECT ... FROM, each with the
\* column it names and the number of the placeholder it holds (Oracle
\* numbers them, SQL Server's ? are counted)
FetchQuery(columns, part, pk, dialect, week_column, limit) ==
    LET year == Str(part.year)
        month == Str(part.month)
        week == IF "week" \in DOMAIN part THEN Str(part.week) ELSE None
        has_week == "week" \in DOMAIN part /\ Truthy(week_column)
        where == <<[clause |-> "WHERE", column |-> "year", at |-> 1],
                   [clause |-> "AND", column |-> "month", at |-> 2]>>
        and_week == IF has_week
                    THEN <<[clause |-> "AND", column |-> week_column.s,
                            at |-> 3]>>
                    ELSE <<>>
        params == <<year, month>> \o (IF has_week THEN <<week>> ELSE <<>>)
        param_idx == IF has_week THEN 4 ELSE 3
        order_by == <<[clause |-> "ORDER BY",
                       column |-> PhysicalColumn(columns, pk), at |-> 0]>>
        fetch == IF limit # None
                 THEN <<[clause |->
                            IF Lower(dialect) = "oracle" THEN "FETCH FIRST"
                            ELSE "OFFSET 0 ROWS FETCH NEXT",
                         column |-> "", at |-> param_idx]>>
                 ELSE <<>>
    IN  IF Lower(dialect) \in {"oracle", "sqlserver"}
        THEN [raises |-> "none",
              query |-> where \o and_week \o order_by \o fetch,
              params |-> params \o (IF limit # None THEN <<IntOf(limit)>>
                                    ELSE <<>>)]
        ELSE [raises |-> "ValueError", query |-> <<>>, params |-> <<>>]

\* the calls of fetch_rows: partitions as get_partitions yields them and
\* as the tests pass them (ints), a week column configured or not, a limit
\* given or not
FetchPartitions ==
    [year : {IntV(2021), Chars(<<2, 0, 2, 1>>)},
     month : {IntV(1), Chars(<<0, 1>>)}]
    \cup
    [year : {IntV(2021), Chars(<<2, 0, 2, 1>>)},
     month : {IntV(1), Chars(<<0, 1>>)},
     week : {IntV(1), Chars(<<1>>)}]

FetchCalls ==
    [columns : {[id |-> "ID_COL", col |-> "AMOUNT"]},
     primary_key : {"id", "col"},
     dialect : {"oracle", "Oracle", "sqlserver", "SQLServer", "mysql"},
     week_column : {None, TextV(""), TextV("WEEK_NO")},
     limit : {None, IntV(0), IntV(5), StrV(5)}]

InitFetch ==
    /\ src_rows = <<>> /\ dest_rows = <<>>
    /\ si = 1 /\ di = 1
    /\ config \in FetchCalls
    /\ partition \in FetchPartitions
    /\ pairs = <<>> /\ results = <<>> /\ events = <<>> /\ iters = 0
    /\ sample = <<>> /\ seen_pks = {}
    /\ writer = NewWriter(DefaultBatchSize)
    /\ db = EmptyDb
    /\ pc = "fetch" /\ err = "none"
    /\ written = <<>> /\ todo = <<>>
    /\ pass1 = NoPass /\ dest_table = <<>> /\ fix = NoFix
    /\ sched = NoSched

\* fetch_rows up to read_cursor.execute(query, params) (line 85): the
\* statement executed is recorded
FetchExecute ==
    /\ pc = "fetch"
    /\ LET q == FetchQuery(config.columns, partition, config.primary_key,
                           config.dialect, config.week_column, config.limit)
       IN  IF q.raises = "none"
           THEN /\ events' = <<[kind |-> "execute", query |-> q.query,
                                params |-> q.params]>>
                /\ pc' = "executed"
                /\ err' = err
           ELSE /\ events' = events
                /\ pc' = "error"
                /\ err' = q.raises
    /\ UNCHANGED <<sched, src_rows, dest_rows, si, di, config, partition, pairs,
                   results, iters, sample, seen_pks, writer, db>>
    /\ UNCHANGED <<written, todo, pass1, dest_table, fix>>

NextFetch == FetchExecute

SpecFetch == InitFetch /\ [][NextFetch]_vars

\* ---------------------------------------------------- claims on the walk
AllKeys == IntKeys \cup StrKeys

CountEvents(kind, k) ==
    Cardinality({i \in 1..Len(events) :
                    events[i].kind = kind /\ events[i].key = k})

CountPairs(k) ==
    Cardinality({i \in 1..Len(pairs) : pairs[i][1].id = k})

\* row-level records of one type and key that the sink holds
CountBuffered(type, k) ==
    Cardinality({i \in 1..Len(writer.buffer) :
                    /\ writer.buffer[i].type = TextV(type)
                    /\ writer.buffer[i].primary_key = k})

\* C1: when both fetched lists are strictly increasing in primary key (one
\* of them may be empty), the completed walk has yielded exactly one MATCH
\* pair for every key of both lists, written exactly one missing_in_dest
\* record for every key of the source only and exactly one extra_in_dest
\* record for every key of the destination only, and nothing else; with
\* keys of one type the walk does complete.
C1_MergeWalkExact ==
    (StrictlyIncreasing(src_rows) /\ StrictlyIncreasing(dest_rows)) =>
        /\ (\A i \in 1..Len(dest_rows) : dest_rows[i].id.t = "int")
              => pc # "error"
        /\ pc = "dispatch" =>
            /\ \A k \in AllKeys :
                LET inS == k \in KeysOf(src_rows)
                    inD == k \in KeysOf(dest_rows)
                IN  /\ CountEvents("MATCH", k) = IF inS /\ inD THEN 1 ELSE 0
                    /\ CountPairs(k) = CountEvents("MATCH", k)
                    /\ CountEvents("missing_in_dest", k)
                          = IF inS /\ ~inD THEN 1 ELSE 0
                    /\ CountBuffered("missing_in_dest", k)
                          = CountEvents("missing_in_dest", k)
                    /\ CountEvents("extra_in_dest", k)
                          = IF inD /\ ~inS THEN 1 ELSE 0
                    /\ CountBuffered("extra_in_dest", k)
                          = CountEvents("extra_in_dest", k)
            /\ Len(pairs) = Cardinality(KeysOf(src_rows) \cap KeysOf(dest_rows))
            /\ Len(writer.buffer)
                  = Cardinality(KeysOf(src_rows) \ KeysOf(dest_rows))
                    + Cardinality(KeysOf(dest_rows) \ KeysOf(src_rows))
            /\ db.table = <<>>

C1_Witness ==
    /\ pc = "dispatch"
    /\ StrictlyIncreasing(src_rows) /\ StrictlyIncreasing(dest_rows)
    /\ \E k \in AllKeys : CountEvents("MATCH", k) = 1
    /\ \E k \in AllKeys : CountBuffered("missing_in_dest", k) = 1
    /\ \E k \in AllKeys : CountBuffered("extra_in_dest", k) = 1

\* C3: the walk terminates: while it runs an iteration can always be taken,
\* every completed iteration has advanced at least one of the two iterators,
\* the loop is left normally exactly when both lists are exhausted, and the
\* iterations never number more than len(src_rows) + len(dest_rows).
C3_WalkTerminates ==
    /\ iters <= Len(src_rows) + Len(dest_rows)
    /\ pc \in {"walk", "dispatch"} => iters <= (si - 1) + (di - 1)
    /\ si <= Len(src_rows) + 1 /\ di <= Len(dest_rows) + 1
    /\ pc = "walk" => ENABLED NextWalk
    /\ (pc = "walk" /\ si > Len(src_rows) /\ di > Len(dest_rows))
          => ENABLED WalkEnd
    /\ pc = "dispatch" => si > Len(src_rows) /\ di > Len(dest_rows)

C3_Witness ==
    /\ pc = "dispatch"
    /\ Len(src_rows) = MaxLen /\ Len(dest_rows) = MaxLen
    /\ iters > MaxLen

\* C4: when both lists carry the same sequence of primary keys, the walk
\* yields only MATCH pairs, one per position, and writes no missing_in_dest
\* or extra_in_dest record.
SameKeySequence ==
    /\ Len(src_rows) = Len(dest_rows)
    /\ \A i \in 1..Len(src_rows) : src_rows[i].id = dest_rows[i].id

C4_IdenticalKeysOnlyMatch ==
    SameKeySequence =>
        /\ pc # "error"
        /\ \A i \in 1..Len(events) :
              /\ i <= Len(src_rows)
              /\ events[i] = Event("MATCH", src_rows[i].id)
        /\ \A i \in 1..Len(pairs) :
              /\ i <= Len(src_rows)
              /\ pairs[i] = <<src_rows[i], dest_rows[i]>>
        /\ Len(pairs) = Len(events)
        /\ writer.buffer = <<>> /\ db.table = <<>>
        /\ pc = "dispatch" => Len(pairs) = Len(src_rows)

C4_Witness ==
    /\ SameKeySequence
    /\ pc = "dispatch"
    /\ Len(pairs) = MaxLen

\* C5 (as claimed): the events of one partition are strictly ordered by
\* primary key, for lists as the readers deliver them (non-decreasing).
EventsStrictlyIncreasing ==
    \A i \in 1..(Len(events) - 1) :
        /\ Comparable(events[i].key, events[i + 1].key)
        /\ PyLess(events[i].key, events[i + 1].key)

EventsNonDecreasing ==
    \A i \in 1..(Len(events) - 1) :
        /\ Comparable(events[i].key, events[i + 1].key)
        /\ ~PyLess(events[i + 1].key, events[i].key)

C5_EventsStrictlyOrdered ==
    (NonDecreasing(src_rows) /\ NonDecreasing(dest_rows))
        => EventsStrictlyIncreasing

\* C5 (amended): the events of one partition are ordered by primary key:
\* never decreasing when both lists are non-decreasing, and strictly
\* increasing when neither list repeats a key.
C5_EventsOrdered ==
    /\ (NonDecreasing(src_rows) /\ NonDecreasing(dest_rows))
          => EventsNonDecreasing
    /\ (StrictlyIncreasing(src_rows) /\ StrictlyIncreasing(dest_rows))
          => EventsStrictlyIncreasing

C5_Witness ==
    /\ pc = "dispatch"
    /\ StrictlyIncreasing(src_rows) /\ StrictlyIncreasing(dest_rows)
    /\ Len(events) >= 3
    /\ events[1].kind # events[2].kind

\* C6: a list whose keys decrease somewhere makes the walk fail: the walk
\* never completes over a non-monotonic list.
C6_NonMonotonicFails ==
    pc = "dispatch" =>
        NonDecreasing(src_rows) /\ NonDecreasing(dest_rows)

\* C7: with an int source key and a str destination key of the same digits
\* at the current position, the iteration emits no MATCH, missing_in_dest or
\* extra_in_dest and ends the partition with an error.
IntAgainstStr ==
    /\ ~IsNone(src_row) /\ ~IsNone(dest_row)
    /\ src_key.t = "int" /\ dest_key.t = "str"
    /\ src_key.v = dest_key.v

C7_KeyTypeMismatchFails ==
    [][(pc = "walk" /\ IntAgainstStr) =>
          /\ pc' = "error"
          /\ events' = events
          /\ pairs' = pairs
          /\ RecordsWritten' = RecordsWritten]_vars

C7_Witness ==
    /\ pc = "error"
    /\ err = "TypeError"
    /\ IntAgainstStr
    /\ iters = 1

\* ------------------------------------------------ claims on the pipeline
\* the records the sink holds: buffered, or rows of the output table
SinkRows ==
    {[c \in DOMAIN writer.buffer[i] |-> SqlText(writer.buffer[i][c])] :
        i \in 1..Len(writer.buffer)}
    \cup {db.table[i] : i \in 1..Len(db.table)}

KindsOf(k) == {r.type : r \in {q \in SinkRows : q.primary_key = SqlText(k)}}

OneKindPerKey ==
    \A k \in PipeKeys :
        /\ Cardinality(KindsOf(k)) <= 1
        /\ TextV("mismatch") \in KindsOf(k)
              => k \in KeysOf(src_rows) \cap KeysOf(dest_rows)

\* C2 (as claimed): for two lists that are non-decreasing in primary key
\* (a key may repeat), the records of one partition for one key are of one
\* kind only (mismatch, missing_in_dest or extra_in_dest), and a mismatch
\* record is only for a key of both lists.
C2_OneKindPerKey ==
    (NonDecreasing(src_rows) /\ NonDecreasing(dest_rows)) => OneKindPerKey

\* C2 (amended): for two lists that are strictly increasing in primary key,
\* the records of one partition for one key are of one kind only, and a
\* mismatch record is only for a key of both lists.
C2_OneKindPerKeyStrict ==
    (StrictlyIncreasing(src_rows) /\ StrictlyIncreasing(dest_rows))
        => OneKindPerKey

C2_Witness ==
    /\ pc = "done"
    /\ StrictlyIncreasing(src_rows) /\ StrictlyIncreasing(dest_rows)
    /\ \E k \in PipeKeys : KindsOf(k) = {TextV("mismatch")}
    /\ \E k \in PipeKeys : KindsOf(k) = {TextV("extra_in_dest")}

\* C8: in every mode, every result the dispatcher yields has a primary_key
\* and a non-empty mismatches list, and the consumer's result["mismatches"]
\* never raises.
C8_ResultsCarryMismatches ==
    /\ \A i \in 1..Len(results) :
          /\ "primary_key" \in DOMAIN results[i]
          /\ "mismatches" \in DOMAIN results[i]
          /\ results[i].mismatches # <<>>
    /\ err # "KeyError"

\* the rows of the output table that are the mismatch record of primary key
\* pk and column c with the two values and the partition's year, month, week
MismatchRows(pk, c, sv, dv) ==
    {i \in 1..Len(db.table) :
        /\ db.table[i].primary_key = SqlText(pk)
        /\ db.table[i].type = TextV("mismatch")
        /\ db.table[i].column = TextV(c)
        /\ db.table[i].source_value = SqlText(Sanitize(sv))
        /\ db.table[i].dest_value = SqlText(Sanitize(dv))
        /\ db.table[i].year = partition.year
        /\ db.table[i].month = partition.month
        /\ db.table[i].week = PartitionWeek(partition)}

Unequal(pair, c) ==
    /\ ~IsNone(pair[1][c]) /\ ~IsNone(pair[2][c])
    /\ ~ValuesEqual(Sanitize(pair[1][c]), Sanitize(pair[2][c]))

\* C9: when process_partition has ended, the output table holds, for every
\* MATCH pair and every column whose two non-null values are unequal, one
\* mismatch record with that key, column, values and partition (as many
\* such records as there are such pairs), in the serial mode as in the
\* parallel modes.
C9_MismatchRecordPerUnequalColumn ==
    pc \in {"done", "error"} =>
        \A i \in 1..Len(pairs) :
            \A n \in 1..Len(LogicalColumns) :
                LET c == LogicalColumns[n]
                IN  Unequal(pairs[i], c) =>
                        Cardinality(MismatchRows(pairs[i][1].id, c,
                                                 pairs[i][1][c],
                                                 pairs[i][2][c]))
                          = Cardinality({j \in 1..Len(pairs) :
                                            /\ pairs[j] = pairs[i]})

\* the same, in the parallel modes only
ParallelModesWriteMismatches == config.parallel => C9_MismatchRecordPerUnequalColumn

\* --------------------------------------------------- claims on the sink
RowPartition(r) == <<r.year, r.month, r.week>>

\* C10: a record is matched to an output row only when primary_key, column,
\* year, month and week all agree: no step changes an output row whose
\* year, month, week are not those of the partition being written, so two
\* records with the same primary_key and column of different partitions
\* stay two rows.
C10_MergeKeyIncludesPartition ==
    [][\A i \in 1..Len(db.table) :
          RowPartition(db.table[i])
                # <<partition.year, partition.month, PartitionWeek(partition)>>
            => /\ i <= Len(db'.table)
               /\ db'.table[i] = db.table[i]]_vars

\* ------------------------------------------------------------ sink claims
Unstamp(recs) ==
    [i \in 1..Len(recs) |->
        [c \in DOMAIN recs[i] \ {"record_insert_datetime"} |-> recs[i][c]]]

RECURSIVE Flatten(_)
Flatten(batches) ==
    IF batches = <<>> THEN <<>>
    ELSE Head(batches) \o Flatten(Tail(batches))

\* the records of the batches this sink has merged and committed, in order
Committed == Unstamp(Flatten(writer.conn.committed))

\* a step in which write is called once
IsWrite == Len(written') = Len(written) + 1

\* C12: with batch_size >= 1, write appends the record to the buffer and
\* calls flush exactly when the buffer length thereby reaches batch_size;
\* after a write that returns normally the buffer holds fewer than
\* batch_size records (none after a flush, one more than before otherwise).
C12_WriteFlushesAtBatchSize ==
    [][IsWrite =>
        LET reached == Len(writer.buffer) + 1 = writer.batch_size
            rec == written'[Len(written')]
        IN  /\ writer.batch_size >= 1
            /\ Len(writer.buffer) < writer.batch_size
            /\ pc' = "error" => reached
            /\ pc' # "error" =>
                /\ Len(writer'.buffer) < writer'.batch_size
                /\ reached =>
                    /\ writer'.buffer = <<>>
                    /\ Len(writer'.conn.committed)
                          = Len(writer.conn.committed) + 1
                    /\ Unstamp(writer'.conn.committed[
                                  Len(writer'.conn.committed)])
                          = Append(Unstamp(writer.buffer), rec)
                /\ ~reached =>
                    /\ writer'.buffer = Append(writer.buffer, rec)
                    /\ writer'.conn.committed = writer.conn.committed]_vars

\* a second write has filled a batch of two and returned normally
C12_Witness ==
    /\ pc = "consume" /\ writer.batch_size = 2
    /\ Len(written) = 2 /\ writer.buffer = <<>>
    /\ Len(writer.conn.committed) = 1

\* C13: after close has returned normally the buffer is empty and the
\* records passed to write since the sink was created are exactly the
\* records of the committed merge batches, each in one batch, none dropped
\* and none merged twice.
C13_CloseCommitsEveryRecordOnce ==
    pc = "done" =>
        /\ writer.buffer = <<>>
        /\ Committed = written

\* a sink closed after three writes, two in a batch flushed by write and
\* one flushed at the end
C13_Witness ==
    /\ pc = "done" /\ writer.batch_size = 2
    /\ Len(written) = 3 /\ Len(writer.conn.committed) = 2

\* C15: when flush raises, the exception reaches the caller (the partition
\* ends with it), nothing is committed for the batch, the output table is
\* as before, and the buffer still holds every record of the failed batch.
FlushErrors == {"KeyError", "ValueError", "DatabaseError"}

C15_FailedFlushKeepsBatch ==
    [][(pc # "error" /\ pc' = "error") =>
        /\ err' \in FlushErrors
        /\ writer'.conn.committed = writer.conn.committed
        /\ db'.table = db.table
        /\ writer'.buffer # <<>>
        /\ Committed' \o Unstamp(writer'.buffer) = written']_vars

\* a flush called by write has failed: its batch of two records matches
\* one row an earlier pass has left in the output table
C15_Witness ==
    /\ pc = "error" /\ err = "DatabaseError"
    /\ Len(writer.buffer) = 2 /\ Len(written) = 2
    /\ writer.conn.committed = <<>> /\ Len(db.table) = 1

\* C14: when a record written after the first one has a key that is not
\* among the columns declared from the first record, the sink adds that
\* column to the output table before the next flush, and it stays declared:
\* once the sink has flushed, every key of every record written is a
\* declared column of the sink and a column of the output table.
C14_NewKeysAreDeclared ==
    pc \in {"exit", "done"} =>
        \A i \in 1..Len(written) :
            /\ DOMAIN written[i] \subseteq writer.columns
            /\ DOMAIN written[i] \subseteq db.tableCols

\* the rows of a table without their record_insert_datetime
Untimed(table) ==
    [i \in 1..Len(table) |->
        [c \in DOMAIN table[i] \ {"record_insert_datetime"} |-> table[i][c]]]

\* C11: when the pass of a completed partition is run a second time over
\* the same source and destination rows, the output table is as the first
\* run left it: no row is added, removed or changed (the time of insertion
\* is not looked at here).
C11_RerunLeavesOutputUnchanged ==
    (pass1.done /\ pc = "done") => Untimed(db.table) = Untimed(pass1.table)

\* what does hold: the second run adds no row whose column is not null
C11_RerunAddsNoMismatchRow ==
    (pass1.done /\ pc = "done") =>
        /\ Len(db.table) >= Len(pass1.table)
        /\ \A i \in 1..Len(db.table) :
              i > Len(pass1.table) => IsNone(db.table[i].column)

\* ------------------------------------------------- claims on the repair
\* C17: in a dry run fix_mismatches changes no data: the destination table
\* and the output table stay as they were when it was called.
C17_DryRunChangesNothing ==
    fix.dry_run => db.table = fix.out0 /\ dest_table = fix.dest0

\* the columns named by the mismatch rows of an output table
ColumnsOf(table) ==
    {table[j].column : j \in 1..Len(table)} \ {None}

\* the output rows of table that a run over the scope joins to row d
RepairedBy(d, table, col) ==
    UNION {Matches(d, table, fix.scope[n], col) : n \in 1..Len(fix.scope)}

\* C18: with apply and no statement failing, a repair run sets each
\* destination column that a mismatch row of the scope is joined to to the
\* source_value of that row and leaves every other destination value as it
\* was, deletes exactly the mismatch rows it has repaired, and a second run
\* updates no destination row and leaves the destination table as the
\* first run left it.
C18_RepairThenNothingToRepair ==
    (pc = "repaired" /\ ~fix.dry_run /\ ~fix.failed) =>
        /\ Len(dest_table) = Len(fix.dest0)
        /\ \A i \in 1..Len(fix.dest0), col \in ColumnsOf(fix.out0) :
            LET M == RepairedBy(fix.dest0[i], fix.out0, col)
            IN  IF M = {} THEN dest_table[i][col.s] = fix.dest0[i][col.s]
                ELSE \E j \in M :
                        dest_table[i][col.s]
                          = CastToColumn(fix.out0[j].source_value)
        /\ db.table = SelectSeq(fix.out0, LAMBDA s :
                        \A i \in 1..Len(fix.dest0) :
                            \A j \in RepairedBy(fix.dest0[i], fix.out0,
                                                s.column) :
                                fix.out0[j] # s)
        /\ fix.run >= 2 => fix.affected = 0 /\ dest_table = fix.dest1

\* two runs with apply have ended, the first of which repaired a
\* destination row and deleted its mismatch row
C18_Witness ==
    /\ pc = "repaired" /\ ~fix.dry_run /\ ~fix.failed
    /\ fix.run = 2 /\ fix.affected = 0
    /\ dest_table # fix.dest0
    /\ Len(db.table) < Len(fix.out0)

\* --------------------------------------------------- claims on the run
\* C16: when the sink fails while flushing a partition, the run goes on with
\* the later partitions of the scope: no run is ended by the sink's failure
\* with partitions still to be processed.
C16_LaterPartitionsProceed ==
    (pc = "error" /\ err = "OperationalError") => todo = <<>>

\* the rows of an output or destination table that are not of partition p
OutputRowsOutside(table, p) ==
    SelectSeq(table, LAMBDA r : RowPartition(r)
                                  # <<p.year, p.month, PartitionWeek(p)>>)

DestRowsOutside(table, p) ==
    SelectSeq(table, LAMBDA d : ~InPartition(d, p))

Uncompared == {todo[n] : n \in 1..Len(todo)}

Range(seq) == {seq[n] : n \in 1..Len(seq)}

\* a step of the repair in which the statements of one column are done
ColumnDone == pc = "fix" /\ fix.selected /\ fix'.columns # fix.columns

\* C21: when the UPDATE of one column fails, the failure is contained to
\* that column: no destination row and no output row is changed (the
\* column's mismatch rows are not deleted), the repair goes on with the
\* other columns of the partition, and the partition is left only when no
\* column remains.
C21_UpdateFailureContained ==
    [][/\ (ColumnDone /\ fix'.outcome = "update fails") =>
            /\ db'.table = db.table
            /\ dest_table' = dest_table
            /\ pc' = "fix" /\ fix'.running /\ fix'.selected
            /\ fix'.partitions = fix.partitions
            /\ \E col \in fix.columns : fix'.columns = fix.columns \ {col}
       /\ (pc = "fix" /\ fix.selected /\ fix'.partitions # fix.partitions) =>
            fix.columns = {}]_vars

\* the UPDATE of one column has failed and the other column of the
\* partition has been repaired after it
C21_Witness ==
    /\ pc = "fix" /\ ~fix.dry_run /\ fix.failed
    /\ fix.selected /\ fix.columns = {} /\ fix.outcome = "ok"
    /\ fix.affected = 1
    /\ Len(db.table) = Len(fix.out0) - 1
    /\ Cardinality(ColumnsOf(fix.out0)) = 2

\* the mismatch rows with no source value, or an empty one
NullSourced(table) ==
    SelectSeq(table, LAMBDA s :
        /\ s.type = TextV("mismatch")
        /\ IsNone(s.source_value) \/ s.source_value = TextV(""))

\* C22: with skip_nulls, a mismatch row whose source_value is null or the
\* empty string causes no destination update and is not deleted: no step
\* of the repair removes such a row, and a destination value changes only
\* to the source_value, neither null nor empty, of a row joined to it.
C22_SkipNullsLeavesRows ==
    [][(pc = "fix" /\ fix.skip_nulls) =>
        /\ NullSourced(db'.table) = NullSourced(db.table)
        /\ Len(dest_table') = Len(dest_table)
        /\ \A i \in 1..Len(dest_table), c \in {"col", "col2"} :
            dest_table'[i][c] # dest_table[i][c] =>
                \E j \in 1..Len(db.table) :
                    /\ db.table[j].type = TextV("mismatch")
                    /\ db.table[j].column = TextV(c)
                    /\ SqlEq(dest_table[i][primary_key],
                             db.table[j].primary_key)
                    /\ db.table[j] \notin Range(NullSourced(db.table))
                    /\ dest_table'[i][c]
                         = CastToColumn(db.table[j].source_value)]_vars

\* a run with apply and skip_nulls has ended: it has repaired a row and has
\* left a mismatch row without source value whose destination row exists
C22_Witness ==
    /\ pc = "repaired" /\ fix.skip_nulls /\ ~fix.dry_run /\ ~fix.failed
    /\ fix.affected > 0
    /\ \E j \in 1..Len(db.table), i \in 1..Len(dest_table) :
        /\ db.table[j] \in Range(NullSourced(db.table))
        /\ JoinOn(dest_table[i], db.table[j], P1)
        /\ dest_table[i] = fix.dest0[i]

\* ------------------------------------------------ claims on get_partitions
\* the number a text of digits denotes
RECURSIVE Value(_)
Value(c) ==
    IF c = <<>> THEN 0
    ELSE Value(SubSeq(c, 1, Len(c) - 1)) * 10 + c[Len(c)]

\* s is the str of x: x itself when x is a str, else the decimal text of
\* the int, without leading zeros
IsStrOf(x, s) ==
    /\ s.t = "chars"
    /\ IF x.t = "int"
       THEN /\ Len(s.c) >= 1
            /\ Value(s.c) = x.v
            /\ Len(s.c) > 1 => s.c[1] # 0
       ELSE s = x

\* s is the str of x, with a zero in front when that str is one character
IsPaddedStrOf(x, s) ==
    /\ s.t = "chars"
    /\ Len(s.c) >= 2
    /\ \/ IsStrOf(x, s)
       \/ /\ Len(s.c) = 2 /\ s.c[1] = 0
          /\ IsStrOf(x, Chars(<<s.c[2]>>))

\* the number of descriptors of the first e entries of a scope
RECURSIVE Yielded(_, _)
Yielded(scope, e) ==
    IF e = 0 THEN 0
    ELSE Yielded(scope, e - 1)
         + (IF "weeks" \in DOMAIN scope[e] THEN Len(scope[e].weeks) ELSE 1)

\* C23: get_partitions yields the descriptors in the order of the scope
\* entries: for an entry with weeks one descriptor per week, in list
\* order, otherwise one descriptor without a week key; year, month and
\* week are strings and month has at least two digits, a zero in front of
\* a single one.
C23_PartitionsInScopeOrder ==
    pc = "listed" =>
        LET scope == IF "partitioning" \in DOMAIN config
                     THEN config.partitioning.scope ELSE <<>>
        IN  /\ Len(todo) = Yielded(scope, Len(scope))
            /\ \A e \in 1..Len(scope) :
                LET off == Yielded(scope, e - 1)
                    entry == scope[e]
                IN  IF "weeks" \in DOMAIN entry
                    THEN \A w \in 1..Len(entry.weeks) :
                            /\ off + w <= Len(todo)
                            /\ DOMAIN todo[off + w] = {"year", "month", "week"}
                            /\ IsStrOf(entry.year, todo[off + w].year)
                            /\ IsPaddedStrOf(entry.month, todo[off + w].month)
                            /\ IsStrOf(entry.weeks[w], todo[off + w].week)
                    ELSE /\ off + 1 <= Len(todo)
                         /\ DOMAIN todo[off + 1] = {"year", "month"}
                         /\ IsStrOf(entry.year, todo[off + 1].year)
                         /\ IsPaddedStrOf(entry.month, todo[off + 1].month)

\* a scope of a month entry {2021, 1} and an entry with two weeks has been
\* listed: "01" without week, then the two weeks
C23_Witness ==
    /\ pc = "listed" /\ Len(todo) = 3
    /\ todo[1] = [year |-> Chars(<<2, 0, 2, 1>>), month |-> Chars(<<0, 1>>)]
    /\ config.partitioning.scope[1].month = IntV(1)
    /\ todo[2].month = Chars(<<1, 2>>)
    /\ todo[2].week = Chars(<<1>>) /\ todo[3].week = Chars(<<2>>)

\* ------------------------------------------------------ claims on the hash
\* values_equal holds for the two values of every column of the pair
EqualInEveryColumn ==
    \A n \in 1..Len(LogicalColumns) :
        ValuesEqual(Sanitize(pairs[1][1][LogicalColumns[n]]),
                    Sanitize(pairs[1][2][LogicalColumns[n]]))

\* C28: two rows whose values are values_equal in every column have the
\* same row hash.
C28_EqualValuesSameHash ==
    (pc = "hashed" /\ EqualInEveryColumn)
        => events[1].source_hash = events[1].dest_hash

\* the tuple of normalized values of a row, in sorted column order
NormalizedTuple(row) == <<NormalizeValue(row.col), NormalizeValue(row.id)>>

\* C29: two rows whose tuples of normalized values differ never present
\* the same bytes to the hash function.
C29_DistinctTuplesDistinctBytes ==
    (pc = "hashed"
     /\ NormalizedTuple(pairs[1][1]) # NormalizedTuple(pairs[1][2]))
        => events[1].source_hash.h # events[1].dest_hash.h

\* the columns in which the two rows of the pair differ
DifferingColumns ==
    {LogicalColumns[n] : n \in
        {m \in 1..Len(LogicalColumns) :
            ~ValuesEqual(Sanitize(pairs[1][1][LogicalColumns[m]]),
                         Sanitize(pairs[1][2][LogicalColumns[m]]))}}

\* only_columns names columns and none of them differs
ExcludesEveryDiffering ==
    /\ "only_columns" \in DOMAIN config
    /\ config.only_columns # <<>>
    /\ \A c \in DifferingColumns : c \notin Range(config.only_columns)

\* C30: for a MATCH pair whose two row hashes differ the comparator emits
\* at least one column diff, unless only_columns excludes every differing
\* column.
C30_DifferentHashesYieldDiff ==
    (pc = "compared"
     /\ events[1].source_hash # events[1].dest_hash
     /\ ~ExcludesEveryDiffering)
        => results # <<>>

\* ------------------------------------------------ claims on main's threads
Started(p) == p \in Range(sched.started)

\* the place of the first partition of p's {year, month} in the list
FirstOfKey(p) ==
    CHOOSE n \in 1..p :
        /\ KeyOf(todo[n]) = KeyOf(todo[p])
        /\ \A k \in 1..(n - 1) : KeyOf(todo[k]) # KeyOf(todo[p])

\* C24 as stated: a partition starts only after every partition of another
\* {year, month} that the enumerator yielded before it has finished.
C24_EnumerationOrder ==
    \A p \in DOMAIN sched.runs, q \in DOMAIN sched.runs :
        (KeyOf(todo[p]) # KeyOf(todo[q]) /\ p < q /\ Started(q))
            => Ended(sched.runs[p])

\* C24: the {year, month} groups are processed in the order of their first
\* appearance in the enumeration and never concurrently: a partition starts
\* only after every partition of a {year, month} that first appears earlier
\* has finished.
C24_GroupOrder ==
    \A p \in DOMAIN sched.runs, q \in DOMAIN sched.runs :
        (FirstOfKey(p) < FirstOfKey(q) /\ Started(q))
            => Ended(sched.runs[p])

\* a month is given twice around another month: the other month has
\* started after both partitions of the first have finished
C24_Witness ==
    /\ Len(todo) = 3 /\ Len(sched.runs) = 3
    /\ KeyOf(todo[1]) = KeyOf(todo[3]) /\ KeyOf(todo[1]) # KeyOf(todo[2])
    /\ sched.started = <<1, 3, 2>>
    /\ sched.runs[1].st = "done" /\ sched.runs[3].st = "done"
    /\ sched.runs[2].st = "walking"

\* the partitions being processed
Processing == {p \in DOMAIN sched.runs : Started(p) /\ ~Ended(sched.runs[p])}

\* C25: the number of partitions processed at the same time never exceeds
\* max_partition_workers, and no pool worker runs two partitions.
C25_WorkersBounded ==
    /\ Cardinality(Processing) <= config.partitioning.max_partition_workers
    /\ \A p \in Processing, q \in Processing :
        (p # q /\ sched.runs[p].thread # MainThread)
            => sched.runs[p].thread # sched.runs[q].thread

\* C26: every connection is opened by one partition run, and no thread
\* makes a call on a connection while another thread is inside a call on
\* it.
C26_OwnConnections ==
    /\ \A o \in sched.opened, n \in sched.opened :
            o[1] = n[1] => o[2] = n[2]
    /\ \A u \in sched.uses :
            /\ u.with = {}
            /\ \E o \in sched.opened : o[1] = u.conn
    /\ \A x \in sched.inside, y \in sched.inside :
            x[1] = y[1] => x = y

\* two weeks run at once: one has written to its sink, which used its
\* destination connection, while the reader of the other is inside a
\* query on the other's destination connection
C26_Witness ==
    \E p \in DOMAIN sched.runs, q \in DOMAIN sched.runs :
        /\ p # q
        /\ sched.runs[p].st = "walking" /\ sched.runs[p].walked
        /\ [conn |-> Connect(p, "dest"), thread |-> PoolThread(p),
            with |-> {}] \in sched.uses
        /\ sched.runs[q].readers["dest"] = "running"
        /\ <<Connect(q, "dest"), ReaderThread(q, "dest")>> \in sched.inside

\* C27: every call on the sink of a partition run, write or flush, is made
\* by the thread that runs that partition, never by a reader or a
\* comparison worker, in every mode.
C27_SinkCalledByOwnThread ==
    \A c \in sched.calls :
        /\ c.sink \in DOMAIN sched.runs
        /\ c.thread = sched.runs[c.sink].thread
        /\ c.thread[1] \notin {"reader", "worker"}

\* two weeks in batch mode: the pairs of both have been hashed and
\* compared by workers, and each run's own thread has written to and
\* flushed its own sink
C27_Witness ==
    /\ config.comparison.parallel
    /\ config.comparison.parallel_mode = "batch"
    /\ \E p \in DOMAIN sched.runs, q \in DOMAIN sched.runs :
        /\ p # q
        /\ sched.runs[p].hashed /\ sched.runs[q].hashed
        /\ \A op \in {"write", "flush"} :
            /\ [sink |-> p, thread |-> PoolThread(p), op |-> op]
                    \in sched.calls
            /\ [sink |-> q, thread |-> PoolThread(q), op |-> op]
                    \in sched.calls

\* ------------------------------------------- claims on the repair's rows
\* the rows of the output table that are no mismatch rows
RowLevel(table) == SelectSeq(table, LAMBDA s : s.type # TextV("mismatch"))

\* C35: the repair changes and deletes no output row of type
\* missing_in_dest or extra_in_dest, and a destination value changes only
\* to the source_value of a mismatch row joined to it.
C35_RepairUsesMismatchRowsOnly ==
    [][pc = "fix" =>
        /\ RowLevel(db'.table) = RowLevel(db.table)
        /\ Len(dest_table') = Len(dest_table)
        /\ \A i \in 1..Len(dest_table), c \in {"col", "col2"} :
            dest_table'[i][c] # dest_table[i][c] =>
                \E j \in 1..Len(db.table) :
                    /\ db.table[j].type = TextV("mismatch")
                    /\ db.table[j].column = TextV(c)
                    /\ SqlEq(dest_table[i][primary_key],
                             db.table[j].primary_key)
                    /\ dest_table'[i][c]
                         = CastToColumn(db.table[j].source_value)]_vars

\* a run with apply has ended: it has repaired a row and deleted its
\* mismatch row, and the missing_in_dest row of a key whose destination row
\* exists in the partition is still in the output table
C35_Witness ==
    /\ pc = "repaired" /\ ~fix.dry_run /\ ~fix.failed
    /\ fix.affected > 0
    /\ Len(db.table) < Len(fix.out0)
    /\ \E j \in 1..Len(db.table), i \in 1..Len(dest_table) :
        /\ db.table[j].type = TextV("missing_in_dest")
        /\ JoinOn(dest_table[i], db.table[j], P1)

\* ---------------------------------------------------- claims on fetch_rows
\* the clause of a statement that begins with kw, and where it stands
ClausesOf(query, kw) == {n \in 1..Len(query) : query[n].clause = kw}

\* C34: for Oracle and SQL Server the statement executed has one ORDER BY,
\* on the physical primary-key column; its parameters are the year and the
\* month as strings, then the week as a string when the partition has a
\* week and a week column is configured, then the limit as an integer when
\* a limit is given, each at the placeholder of its place; for any other
\* dialect the call raises and executes nothing.
C34_FetchOrdersAndBinds ==
    LET supported == config.dialect \in {"oracle", "Oracle", "sqlserver",
                                         "SQLServer"}
        has_week == /\ "week" \in DOMAIN partition
                    /\ config.week_column = TextV("WEEK_NO")
        has_limit == config.limit # None
    IN  /\ pc = "executed" =>
            LET q == events[1].query
                ps == events[1].params
                n == 2 + (IF has_week THEN 1 ELSE 0)
                       + (IF has_limit THEN 1 ELSE 0)
            IN  /\ supported
                /\ Cardinality(ClausesOf(q, "ORDER BY")) = 1
                /\ \A k \in ClausesOf(q, "ORDER BY") :
                        /\ q[k].column = config.columns[config.primary_key]
                        /\ \A j \in ClausesOf(q, "WHERE") \cup
                                    ClausesOf(q, "AND") : j < k
                /\ Len(ps) = n
                /\ IsStrOf(partition.year, ps[1])
                /\ IsStrOf(partition.month, ps[2])
                /\ has_week => IsStrOf(partition.week, ps[3])
                /\ has_limit => /\ ps[n].t = "int"
                                /\ ps[n].v = config.limit.v
                /\ {q[k].at : k \in 1..Len(q)} \ {0} = 1..n
                /\ \A j \in 1..Len(q), k \in 1..Len(q) :
                        (j < k /\ q[k].at # 0) => q[j].at < q[k].at
                /\ has_week <=> \E k \in 1..Len(q) : q[k].column = "WEEK_NO"
        /\ pc = "error" => ~supported /\ events = <<>> /\ err = "ValueError"
        /\ pc = "fetch" => events = <<>>

\* a week partition given as ints has been fetched from SQL Server with a
\* week column and the limit "5": four parameters, the statement ordered
\* by the physical name of the key
C34_Witness ==
    /\ pc = "executed"
    /\ config.dialect = "SQLServer" /\ config.primary_key = "id"
    /\ partition = [year |-> IntV(2021), month |-> IntV(1), week |-> IntV(1)]
    /\ events[1].params = <<Chars(<<2, 0, 2, 1>>), Chars(<<1>>), Chars(<<1>>),
                            IntV(5)>>
    /\ config.limit = StrV(5)
    /\ events[1].query[4].column = "ID_COL"

\* ------------------------------------------ claims on the weeks of a month
\* the runs that are past start_event.wait()
PastStart(run) == run.st \notin {"new", "waiting"}

BothFetched(run) == run.readers = [src |-> "rows", dest |-> "rows"]

\* C39: among the weeks of a month that run in a pool, a week has opened
\* no connection and submitted no fetch before both fetches of the week
\* enumerated before it have returned their rows, so the weeks pass their
\* start in the order of the enumeration; and a run walks only with both
\* of its own fetches completed.
C39_FetchPhasesInOrder ==
    sched # NoSched =>
        /\ \A p \in DOMAIN sched.runs :
            LET run == sched.runs[p]
            IN  /\ (run.after # 0 /\
                    (PastStart(run) \/ \E c \in sched.opened : c[2] = p))
                        => /\ BothFetched(sched.runs[run.after])
                           /\ \E i, j \in 1..Len(sched.started) :
                                /\ i < j
                                /\ sched.started[i] = run.after
                                /\ sched.started[j] = p
                /\ ~PastStart(run) =>
                        /\ run.readers = [src |-> "idle", dest |-> "idle"]
                        /\ \A c \in sched.opened : c[2] # p
                /\ (run.st \in {"walking", "repair", "done"} \/ run.walked)
                        => BothFetched(run)

\* the second week of a month is fetching while the first, fetched, is
\* still comparing
C39_Witness ==
    /\ sched # NoSched
    /\ \E p \in DOMAIN sched.runs :
        /\ sched.runs[p].after # 0
        /\ sched.runs[p].st = "fetching"
        /\ sched.runs[p].readers.src = "running"
        /\ sched.runs[sched.runs[p].after].st = "walking"
        /\ sched.runs[sched.runs[p].after].pending = 1

\* C38: with weeks running in a pool, as long as main has neither returned
\* nor raised, something can still happen: no state is reached where a
\* week waits for an event that nothing will set and main waits for that
\* week.
C38_WeeksTerminate ==
    pc \notin {"end", "failed"} => ENABLED NextThreads

\* ------------------------------------- claims on the walk's exhaustion
\* the places of seq that hold a row-level record of a type and a key
RowLevelOf(seq, type, k) ==
    {n \in 1..Len(seq) : /\ seq[n].type = TextV(type)
                         /\ seq[n].primary_key = k}

RowsOfKey(rows, k) == {n \in 1..Len(rows) : rows[n].id = k}

\* C40: in the serial, the thread and the batch mode, once writer.flush()
\* of line 214 has returned, write_record has been called with one
\* missing_in_dest record for every source row whose key is in no
\* destination row and one extra_in_dest record for every destination row
\* whose key is in no source row, and the output table holds them; this
\* also when the walk has yielded no MATCH pair.
C40_WalkExhausted ==
    pc = "exit" =>
        /\ si = Len(src_rows) + 1 /\ di = Len(dest_rows) + 1
        /\ \A k \in KeysOf(src_rows) \ KeysOf(dest_rows) :
            /\ Cardinality(RowLevelOf(written, "missing_in_dest", k))
                  = Cardinality(RowsOfKey(src_rows, k))
            /\ RowLevelOf(db.table, "missing_in_dest", SqlText(k)) # {}
        /\ \A k \in KeysOf(dest_rows) \ KeysOf(src_rows) :
            /\ Cardinality(RowLevelOf(written, "extra_in_dest", k))
                  = Cardinality(RowsOfKey(dest_rows, k))
            /\ RowLevelOf(db.table, "extra_in_dest", SqlText(k)) # {}

\* the batch mode has been handed a walk without a MATCH pair, over a
\* source-only and a destination-only key, and the final flush is done
C40_Witness ==
    /\ pc = "exit"
    /\ pairs = <<>>
    /\ config.parallel /\ config.parallel_mode = "batch"
    /\ KeysOf(src_rows) = {IntV(1)} /\ KeysOf(dest_rows) = {IntV(2)}
    /\ Len(db.table) = 2

\* ------------------------------------------- claims on the comparison
\* what a call of the log has returned
Called(kind) == \E n \in 1..Len(events) : events[n].kind = kind

OutOf(kind) == (CHOOSE e \in Range(events) : e.kind = kind).out

HasNull(diff) == IsNone(diff.source_value) \/ IsNone(diff.dest_value)

\* C32: compare_rows on a pair of one and the same row returns the empty
\* list, with use_row_hash and without it.
C32_RowEqualsItself ==
    Called("compare_rows") =>
        \A i \in 1..Len(pairs) :
            pairs[i][1] = pairs[i][2] => OutOf("compare_rows")[i] = <<>>

\* a row whose value is None has been compared with itself column by
\* column, use_row_hash being off
C32_Witness ==
    /\ Called("compare_rows")
    /\ ~config.use_row_hash
    /\ \E i \in 1..Len(pairs) : /\ pairs[i][1] = pairs[i][2]
                                /\ IsNone(pairs[i][1].col)
    /\ \E i \in 1..Len(pairs) : /\ pairs[i][1] = pairs[i][2]
                                /\ pairs[i][1].col = FloatV(4)

\* C31: with include_nulls false neither compare_rows nor
\* compare_row_pair_by_pk nor the serial mode returns a diff of a column
\* whose source value or destination value is null.
C31_NullsSuppressed ==
    ~config.include_nulls =>
        /\ Called("compare_rows") =>
            \A i \in 1..Len(pairs) :
                \A n \in 1..Len(OutOf("compare_rows")[i]) :
                    ~HasNull(OutOf("compare_rows")[i][n])
        /\ Called("by_pk") =>
            \A i \in 1..Len(pairs) :
                ~IsNone(OutOf("by_pk")[i]) =>
                    \A n \in 1..Len(OutOf("by_pk")[i].mismatches) :
                        ~HasNull(OutOf("by_pk")[i].mismatches[n])
        /\ Called("serial") =>
            \A n \in 1..Len(OutOf("serial")) : ~HasNull(OutOf("serial")[n])

\* the places of the pairs whose two hashes differ, and the n-th of them
DifferingHashes ==
    {i \in 1..Len(pairs) :
        ComputeRowHash(pairs[i][1]) # ComputeRowHash(pairs[i][2])}

NthDiffering(n) ==
    CHOOSE i \in DifferingHashes :
        Cardinality({j \in DifferingHashes : j < i}) = n - 1

\* C33: with use_row_hash on, a pair of equal hashes gets no diff from
\* compare_rows and none from compare_row_pair_by_pk, whatever its columns
\* hold; and the hash filter of the batch mode hands on the pairs of
\* differing hashes, all of them and no other, in the order of the input,
\* so that the batch mode returns what the per-row comparison returns for
\* those.
C33_EqualHashesSkipColumns ==
    /\ (Called("compare_rows") /\ config.use_row_hash) =>
            \A i \in 1..Len(pairs) :
                i \notin DifferingHashes => OutOf("compare_rows")[i] = <<>>
    /\ (Called("by_pk") /\ config.use_row_hash) =>
            \A i \in 1..Len(pairs) :
                i \notin DifferingHashes => IsNone(OutOf("by_pk")[i])
    /\ Called("filter") =>
            /\ Len(OutOf("filter")) = Cardinality(DifferingHashes)
            /\ \A n \in 1..Len(OutOf("filter")) :
                    OutOf("filter")[n] = pairs[NthDiffering(n)]
    /\ Called("batch") =>
            OutOf("batch") =
                SelectSeq([n \in 1..Cardinality(DifferingHashes) |->
                             OutOf("by_pk")[NthDiffering(n)]],
                          LAMBDA r : ~IsNone(r))

\* of two pairs the first has equal hashes over different values (0.0 and
\* 0.000004) and the second differing hashes: the filter has handed on the
\* second only
C33_Witness ==
    /\ pc = "done"
    /\ config.use_row_hash
    /\ Len(pairs) = 2
    /\ pairs[1][1].col = FloatV(0) /\ pairs[1][2].col = FloatV(4)
    /\ pairs[2][1].col = FloatV(0) /\ pairs[2][2].col = FloatV(20)
    /\ OutOf("filter") = <<pairs[2]>>
    /\ Len(OutOf("batch")) = 1

\* the diffs a mode has reported, as (primary_key, column, source_value,
\* dest_value)
DiffsOfSerial ==
    {<<r.primary_key, r.column, r.source_value, r.dest_value>> :
        r \in Range(OutOf("serial"))}

DiffsOf(kind) ==
    UNION {{<<r.primary_key, d.column, d.source_value, d.dest_value>> :
                d \in Range(r.mismatches)} : r \in Range(OutOf(kind))}

\* C37: over the same pairs and the same configuration the serial mode,
\* the thread mode and the batch mode report the same set of diffs.
C37_ModesAgree ==
    pc = "done" =>
        /\ DiffsOfSerial = DiffsOf("thread")
        /\ DiffsOf("thread") = DiffsOf("batch")

\* ------------------------------- claims on discard_matching_rows_by_hash
\* the keys on both sides whose two rows have one hash
EqualOnBothSides ==
    {k \in KeysOf(src_rows) \cap KeysOf(dest_rows) :
        \E i \in 1..Len(src_rows), j \in 1..Len(dest_rows) :
            /\ src_rows[i].id = k /\ dest_rows[j].id = k
            /\ ComputeRowHash(src_rows[i]) = ComputeRowHash(dest_rows[j])}

\* C36: the function returns of each list the rows whose key is not a key
\* of both sides with equal hashes, all of them and no other; discarded +
\* kept is the number of keys on both sides; and each returned list is
\* sorted by primary key.
C36_DiscardExact ==
    pc = "discarded" =>
        LET r == results[1]
        IN  /\ Range(r.filtered_src)
                  = {row \in Range(src_rows) : row.id \notin EqualOnBothSides}
            /\ Range(r.filtered_dest)
                  = {row \in Range(dest_rows) : row.id \notin EqualOnBothSides}
            /\ r.discarded + r.kept
                  = Cardinality(KeysOf(src_rows) \cap KeysOf(dest_rows))
            /\ StrictlyIncreasing(r.filtered_src)
            /\ StrictlyIncreasing(r.filtered_dest)

====
